---------------------------- MODULE Spec2Model ----------------------------
(***************************************************************************)
(* A model of the docster server: the retry wrapper around the LLM calls   *)
(* and the diagram generator (ai_service.py), the repository walker, the   *)
(* generation run and the persistence store (documentation_service.py),    *)
(* the context retriever and the conversation log (chat_service.py), the   *)
(* GitHub client holder (github_service.py) and the routes.                *)
(*                                                                         *)
(* Each component has a specification of its own:                          *)
(*   SpecRetry  AIService._retry_api_call, one action per loop iteration   *)
(*   SpecWalk   _get_important_files and _build_repo_structure on a tree   *)
(*   SpecGen    generate_repository_documentation and _save_documentation  *)
(*   SpecCtx    ChatService.get_context_for_query                          *)
(*   SpecKeys   the store under several repository names                   *)
(*   SpecCred   generate requests sharing the module-level github_service  *)
(*   SpecGenRead  a generation run beside a get_documentation call         *)
(*   SpecMermaid  AIService.generate_mermaid_diagram                       *)
(*   SpecDiag   DocumentationService.generate_documentation                *)
(*   SpecChat   the query route and ChatService._save_conversation         *)
(*   SpecHttp   the six POST routes, one request                           *)
(*   SpecLlm    one call of an LLM method of AIService beside a walker     *)
(*   SpecSave   _save_documentation called by concurrent runs              *)
(* Strings are TLA+ strings; text is taken apart with Len and SubSeq.      *)
(***************************************************************************)
EXTENDS Integers, Sequences, FiniteSets, TLC

VARIABLES
    \* --- _retry_api_call ---
    max_retries,      \* argument max_retries
    initial_delay,    \* argument initial_delay
    funcFails,        \* how often func raises before it returns (environment)
    retry,            \* the call's state: retries, position, event log, result
    \* --- the repository walker ---
    tree,             \* the repository: its root listing, subdirectories nested
    failing,          \* directory paths whose listing call raises (environment)
    walk,             \* the walker call made and what it produced
    \* --- get_context_for_query ---
    ctxDoc,           \* what get_documentation returns for the repository
    ctxQuery,         \* argument query
    ctx,              \* the call's position, relevant_context and return value
    \* --- generate_repository_documentation ---
    model_available,  \* AIService.model is not None
    store,            \* data/docs: per storage key, documentation.json and .md
    storePrev,        \* the store as it was when the run started (history)
    gen,              \* the run: position, local variables, result
    \* --- the store under several repository names ---
    generated,        \* per repository name, the record last saved for it (history)
    lookup,           \* a get_documentation call: its argument and what it got
    \* --- the routes and their singleton services ---
    github_service,   \* documentation_routes.github_service: _access_token, github
    reqs,             \* the generate requests in flight, one handler each
    diag,             \* a generate_documentation call (the diagram variant)
    mermaid,          \* a generate_mermaid_diagram call
    chats,            \* data/chats: per storage key, the conversation files
    chat,             \* the query requests handled so far and the current one
    http,             \* one request to an endpoint, its response and its effects
    \* --- single calls of AIService and of _save_documentation ---
    llm,              \* a call of one of AIService's five LLM methods
    savers            \* the _save_documentation calls under way for one key

retryVars == <<max_retries, initial_delay, funcFails, retry>>
walkVars == <<tree, failing, walk>>
ctxVars == <<ctxDoc, ctxQuery, ctx>>
genVars == <<model_available, store, storePrev, gen>>

keysVars == <<generated, lookup>>
credVars == <<github_service, reqs>>
chatVars == <<chats, chat>>
callVars == <<llm, savers>>
serviceVars == <<keysVars, credVars, diag, mermaid, chatVars, http, callVars>>

vars == <<retryVars, walkVars, ctxVars, genVars, serviceVars>>

(***************************************************************************)
(* Bounds of the model.                                                    *)
(***************************************************************************)
MaxRetriesBound == 3      \* max_retries is drawn from -1 .. MaxRetriesBound
MaxDelay == 2             \* initial_delay is drawn from 1 .. MaxDelay
MaxNodes == 3             \* entries (files and directories) of a walked tree
MaxCtxFiles == 2          \* file entries of a persisted record that is queried
GenMaxNodes == 2          \* entries of the repository a generation run documents

(***************************************************************************)
(* Text helpers: Python's str.lower, str.split, `in`, os.path.splitext.    *)
(***************************************************************************)
UpperLetters == "ABCDEFGHIJKLMNOPQRSTUVWXYZ"
LowerLetters == "abcdefghijklmnopqrstuvwxyz"

Char(s, i) == SubSeq(s, i, i)

\* the lowercase letter of each uppercase letter
LowerOf ==
    [c \in {Char(UpperLetters, i) : i \in 1..Len(UpperLetters)} |->
        Char(LowerLetters, CHOOSE i \in 1..Len(UpperLetters) : Char(UpperLetters, i) = c)]

LowerChar(c) == IF c \in DOMAIN LowerOf THEN LowerOf[c] ELSE c

RECURSIVE Lower(_)
Lower(s) ==
    IF Len(s) = 0 THEN ""
    ELSE LowerChar(Char(s, 1)) \o Lower(SubSeq(s, 2, Len(s)))

\* Python's `a in b` on strings
Contains(b, a) ==
    \E i \in 1..(Len(b) - Len(a) + 1) : SubSeq(b, i, i + Len(a) - 1) = a

StartsWith(s, p) == Len(p) <= Len(s) /\ SubSeq(s, 1, Len(p)) = p

\* str.split() without arguments: the maximal runs of non-whitespace, in order
Whitespace == {" ", "\t", "\n", "\r"}

RECURSIVE Split(_)
Split(s) ==
    IF Len(s) = 0 THEN <<>>
    ELSE IF Char(s, 1) \in Whitespace THEN Split(SubSeq(s, 2, Len(s)))
    ELSE LET ends == {i \in 1..Len(s) : \A j \in 1..i : Char(s, j) \notin Whitespace}
             n == CHOOSE i \in ends : \A j \in ends : j <= i
         IN  <<SubSeq(s, 1, n)>> \o Split(SubSeq(s, n + 1, Len(s)))

\* sep.join(parts)
RECURSIVE Join(_, _)
Join(sep, parts) ==
    IF Len(parts) = 0 THEN ""
    ELSE IF Len(parts) = 1 THEN parts[1]
    ELSE parts[1] \o sep \o Join(sep, Tail(parts))

(***************************************************************************)
(* AIService._retry_api_call.  func is the environment: it raises on its   *)
(* first funcFails calls (the i-th failure carries error i) and returns    *)
(* RetValue afterwards.                                                    *)
(***************************************************************************)
RetValue == "response"

RECURSIVE Pow2(_)
Pow2(n) == IF n <= 0 THEN 1 ELSE 2 * Pow2(n - 1)

\* delay = initial_delay * (2 ** (retries - 1))
BackoffDelayOffByOne(delay0, retries) == delay0 * Pow2(retries)
BackoffDelay(delay0, retries) == delay0 * Pow2(retries - 1)

\* if retries > max_retries: raise
RetryExhaustedEarly(retries, maxr) == retries >= maxr
RetryExhausted(retries, maxr) == retries > maxr

\* while retries <= max_retries
RetryLoopCond(retries, maxr) == retries <= maxr

RetryStart ==
    [retries |-> 0, pc |-> "loop", log |-> <<>>, kind |-> "none", val |-> "", err |-> 0]

Ev(ev, arg) == [ev |-> ev, arg |-> arg]

\* Calls of func made so far
Attempts(log) == Cardinality({i \in 1..Len(log) : log[i].ev \in {"fail", "ok"}})

\* One evaluation of the while condition and, if it holds, one pass of the
\* loop body.
RetryIteration(st, maxr, delay0, fails) ==
    IF ~RetryLoopCond(st.retries, maxr)
    THEN \* the loop ends without a return statement: the call returns None
         [st EXCEPT !.pc = "returned", !.kind = "none"]
    ELSE IF Attempts(st.log) >= fails
    THEN \* return func()
         [st EXCEPT !.pc = "returned", !.kind = "value", !.val = RetValue,
                    !.log = Append(@, Ev("ok", 0))]
    ELSE \* except Exception as e:
         LET e == Attempts(st.log) + 1
             r == st.retries + 1
         IN  IF RetryExhausted(r, maxr)
             THEN [st EXCEPT !.retries = r, !.pc = "raised", !.kind = "raise",
                             !.err = e, !.log = Append(@, Ev("fail", e))]
             ELSE [st EXCEPT !.retries = r,
                             !.log = @ \o <<Ev("fail", e),
                                            Ev("sleep", BackoffDelay(delay0, r))>>]

\* The whole call, for the callers of _retry_api_call
RECURSIVE _retry_api_call(_, _, _, _)
_retry_api_call(st, maxr, delay0, fails) ==
    IF st.pc # "loop" THEN st
    ELSE _retry_api_call(RetryIteration(st, maxr, delay0, fails), maxr, delay0, fails)

(***************************************************************************)
(* Repository trees.  An entry is what the listing call returns for one    *)
(* name: name, path (slash-separated from the root) and type; a directory  *)
(* carries its own listing as children.  Sibling names are distinct.       *)
(***************************************************************************)
DirNames == {"src", "dist", "Build", "a.py"}
FileNames == {"a.py", "README.md", "n.txt", "M.TS", ".py", "dist"}

JoinPath(parent, name) == IF parent = "" THEN name ELSE parent \o "/" \o name

\* the names JoinPath put together, outermost first
RECURSIVE PathComponentsOf(_)
PathComponentsOf(p) ==
    IF \A i \in 1..Len(p) : Char(p, i) # "/" THEN <<p>>
    ELSE LET k == CHOOSE i \in 1..Len(p) :
                      Char(p, i) = "/" /\ \A j \in 1..(i - 1) : Char(p, j) # "/"
         IN  <<SubSeq(p, 1, k - 1)>> \o PathComponentsOf(SubSeq(p, k + 1, Len(p)))

FileEntry(parent, n) ==
    [name |-> n, path |-> JoinPath(parent, n), type |-> "file", children |-> <<>>]
DirEntry(parent, n, c) ==
    [name |-> n, path |-> JoinPath(parent, n), type |-> "dir", children |-> c]

RECURSIVE ListingsOfSize(_, _, _, _), EntriesOfSize(_, _, _, _)
\* the entries of exactly n nodes that can sit in directory `parent`
EntriesOfSize(parent, n, dnames, fnames) ==
    IF n < 1 THEN {}
    ELSE (IF n = 1 THEN {FileEntry(parent, f) : f \in fnames} ELSE {})
         \cup UNION {{DirEntry(parent, d, c) :
                         c \in ListingsOfSize(JoinPath(parent, d), n - 1, dnames, fnames)} :
                     d \in dnames}
\* the listings of directory `parent` holding exactly n nodes in all
ListingsOfSize(parent, n, dnames, fnames) ==
    IF n = 0 THEN {<<>>}
    ELSE UNION {UNION {{<<e>> \o rest :
                           rest \in {r \in ListingsOfSize(parent, n - k, dnames, fnames) :
                                        \A j \in 1..Len(r) : r[j].name # e.name}} :
                       e \in EntriesOfSize(parent, k, dnames, fnames)} :
                k \in 1..n}

Trees(maxn, dnames, fnames) ==
    UNION {ListingsOfSize("", n, dnames, fnames) : n \in 0..maxn}

\* every entry of a listing, at any depth
RECURSIVE AllEntries(_)
AllEntries(listing) ==
    UNION {{listing[i]} \cup AllEntries(listing[i].children) : i \in 1..Len(listing)}

DirPaths(listing) == {e.path : e \in {x \in AllEntries(listing) : x.type = "dir"}}

(***************************************************************************)
(* GitHubService.get_repository_contents on the tree `root`: the listing   *)
(* of a directory path.  The call raises for a path in `fail`.             *)
(***************************************************************************)
get_repository_contents(root, path) ==
    IF path = "" THEN root
    ELSE (CHOOSE e \in AllEntries(root) : e.path = path).children

(***************************************************************************)
(* os.path.splitext on a name without separators: the extension starts at  *)
(* the last dot, unless only dots precede it.                              *)
(***************************************************************************)
SplitExt(p) ==
    LET dots == {i \in 1..Len(p) : Char(p, i) = "."}
    IN  IF dots = {} THEN ""
        ELSE LET d == CHOOSE i \in dots : \A j \in dots : j <= i
             IN  IF \E j \in 1..(d - 1) : Char(p, j) # "."
                 THEN SubSeq(p, d, Len(p))
                 ELSE ""

(***************************************************************************)
(* DocumentationService._get_important_files / process_contents.           *)
(***************************************************************************)
SkippedDirs == {".git", "node_modules", "venv", "dist", "build"}
ImportantNames == {"readme.md", "contributing.md", "license", "dockerfile", ".env.example"}
CodeExtensions == {".py", ".js", ".jsx", ".ts", ".tsx", ".go", ".java", ".rb",
                   ".php", ".c", ".cpp", ".h", ".hpp"}

\* content.name.lower() in ['.git', 'node_modules', 'venv', 'dist', 'build']
IsSkippedDirCaseSensitive(name) == name \in SkippedDirs
IsSkippedDir(name) == Lower(name) \in SkippedDirs

\* the if / elif that appends content.path
IsImportantFileExtOnly(name) == SplitExt(Lower(name)) \in CodeExtensions
IsImportantFile(name) ==
    \/ Lower(name) \in ImportantNames
    \/ SplitExt(Lower(name)) \in CodeExtensions

WalkStart == [files |-> <<>>, calls |-> <<>>, raised |-> FALSE]

\* process_contents(contents) from entry i on; st carries the files found, the
\* listing calls made and whether a call has raised (which ends the walk).
RECURSIVE process_contents(_, _, _, _, _)
process_contents(root, fail, contents, i, st) ==
    IF st.raised \/ i > Len(contents) THEN st
    ELSE LET content == contents[i]
             after ==
                 IF content.type = "dir"
                 THEN IF IsSkippedDir(content.name) THEN st
                      ELSE LET called == [st EXCEPT !.calls = Append(@, content.path)]
                           IN  IF content.path \in fail
                               THEN [called EXCEPT !.raised = TRUE]
                               ELSE process_contents(root, fail,
                                        get_repository_contents(root, content.path), 1, called)
                 ELSE IF IsImportantFile(content.name)
                      THEN [st EXCEPT !.files = Append(@, content.path)]
                      ELSE st
         IN  process_contents(root, fail, contents, i + 1, after)

_get_important_files(root, fail, contents) ==
    process_contents(root, fail, contents, 1, WalkStart)

(***************************************************************************)
(* DocumentationService._build_repo_structure: every directory is listed,  *)
(* none is skipped.                                                        *)
(***************************************************************************)
StructStart == [structure |-> <<>>, calls |-> <<>>, raised |-> FALSE]

RECURSIVE _build_repo_structure_from(_, _, _, _, _)
_build_repo_structure_from(root, fail, contents, i, st) ==
    IF st.raised \/ i > Len(contents) THEN st
    ELSE LET content == contents[i]
             after ==
                 IF content.type = "dir"
                 THEN LET called == [st EXCEPT !.calls = Append(@, content.path)]
                      IN  IF content.path \in fail
                          THEN [called EXCEPT !.raised = TRUE]
                          ELSE LET sub == _build_repo_structure_from(root, fail,
                                              get_repository_contents(root, content.path), 1,
                                              [called EXCEPT !.structure = <<>>])
                               IN  [sub EXCEPT !.structure =
                                       Append(st.structure,
                                              [type |-> "directory", name |-> content.name,
                                               path |-> content.path,
                                               contents |-> sub.structure])]
                 ELSE [st EXCEPT !.structure =
                          Append(@, [type |-> "file", name |-> content.name,
                                     path |-> content.path, contents |-> <<>>])]
         IN  _build_repo_structure_from(root, fail, contents, i + 1, after)

_build_repo_structure(root, fail, contents) ==
    _build_repo_structure_from(root, fail, contents, 1, StructStart)

FailChoices(root) == {{}} \cup {{p} : p \in DirPaths(root)}

WalkIdle == [op |-> "none", files |-> <<>>, structure |-> <<>>, calls |-> <<>>,
             raised |-> FALSE]

WalkInit ==
    /\ tree \in Trees(MaxNodes, DirNames, FileNames)
    /\ failing \in FailChoices(tree)
    /\ walk = WalkIdle

\* _get_important_files(repo_name, contents) on the root listing
WalkImportantFiles ==
    /\ walk.op = "none"
    /\ LET r == _get_important_files(tree, failing, get_repository_contents(tree, ""))
       IN  walk' = [op |-> "important", files |-> IF r.raised THEN <<>> ELSE r.files,
                    structure |-> <<>>, calls |-> r.calls, raised |-> r.raised]
    /\ UNCHANGED <<tree, failing>>

\* _build_repo_structure(repo_name, contents) on the root listing
WalkBuildStructure ==
    /\ walk.op = "none"
    /\ LET r == _build_repo_structure(tree, failing, get_repository_contents(tree, ""))
       IN  walk' = [op |-> "structure", files |-> <<>>,
                    structure |-> IF r.raised THEN <<>> ELSE r.structure,
                    calls |-> r.calls, raised |-> r.raised]
    /\ UNCHANGED <<tree, failing>>

RetryInit ==
    /\ max_retries \in -1..MaxRetriesBound
    /\ initial_delay \in 1..MaxDelay
    /\ funcFails \in 0..(MaxRetriesBound + 2)
    /\ retry = RetryStart

RetryStep ==
    /\ retry.pc = "loop"
    /\ retry' = RetryIteration(retry, max_retries, initial_delay, funcFails)
    /\ UNCHANGED <<max_retries, initial_delay, funcFails>>

(***************************************************************************)
(* ChatService.get_context_for_query.  NoDoc is get_documentation's None.  *)
(***************************************************************************)
NoDoc == [exists |-> FALSE]
NoDocumentationText == "No documentation available for this repository."

CtxPaths == {"src/a.py", "README.md"}
CtxTexts == {"handles auth", "Intro"}
CtxQueries == {"", " \t", "auth", "intro", "readme", "README", "zzz", "s", "Zzz  SRC"}

CtxFileDocs == [file_path : CtxPaths, documentation : CtxTexts]

CtxRepository == [name |-> "docster", description |-> "Docs generator", summary |-> "A Flask app"]

CtxDocs ==
    {[exists |-> TRUE, repository |-> CtxRepository, files |-> f] :
        f \in UNION {[1..n -> CtxFileDocs] : n \in 0..MaxCtxFiles}}

\* relevant_context after the three appends of lines 23-28
ContextHeaderSwapped(doc) ==
    << "Repository: " \o doc.repository.name,
       "Summary: " \o doc.repository.summary,
       "Description: " \o doc.repository.description >>
ContextHeader(doc) ==
    << "Repository: " \o doc.repository.name,
       "Description: " \o doc.repository.description,
       "Summary: " \o doc.repository.summary >>

\* any(keyword in text.lower() for keyword in query.lower().split())
AnyKeywordIn(text, query) ==
    LET keywords == Split(Lower(query))
    IN  \E k \in 1..Len(keywords) : Contains(Lower(text), keywords[k])

FileEntries(file_doc) == << "File: " \o file_doc.file_path, file_doc.documentation >>

\* the body of the for loop: what one file_doc appends to relevant_context
FileContextTwoIfs(file_doc, query) ==
    (IF AnyKeywordIn(file_doc.file_path, query) THEN FileEntries(file_doc) ELSE <<>>)
    \o (IF AnyKeywordIn(file_doc.documentation, query) THEN FileEntries(file_doc) ELSE <<>>)
FileContext(file_doc, query) ==
    IF AnyKeywordIn(file_doc.file_path, query) THEN FileEntries(file_doc)
    ELSE IF AnyKeywordIn(file_doc.documentation, query) THEN FileEntries(file_doc)
    ELSE <<>>

\* for file_doc in documentation['files'], from index i on
RECURSIVE ContextLoop(_, _, _, _)
ContextLoop(files, i, query, relevant_context) ==
    IF i > Len(files) THEN relevant_context
    ELSE ContextLoop(files, i + 1, query, relevant_context \o FileContext(files[i], query))

\* get_context_for_query without the test of line 18: the lookup of
\* documentation['repository'] on None raises TypeError
get_context_for_query_unchecked(doc, query) ==
    IF ~doc.exists
    THEN [pc |-> "raised", relevant_context |-> <<>>, ret |-> ""]
    ELSE LET rc == ContextLoop(doc.files, 1, query, ContextHeader(doc))
         IN  [pc |-> "done", relevant_context |-> rc, ret |-> Join("\n\n", rc)]
get_context_for_query(doc, query) ==
    IF ~doc.exists
    THEN [pc |-> "done", relevant_context |-> <<>>, ret |-> NoDocumentationText]
    ELSE LET rc == ContextLoop(doc.files, 1, query, ContextHeader(doc))
         IN  [pc |-> "done", relevant_context |-> rc, ret |-> Join("\n\n", rc)]

CtxIdle == [pc |-> "start", relevant_context |-> <<>>, ret |-> ""]

CtxInit ==
    /\ ctxDoc \in CtxDocs \cup {NoDoc}
    /\ ctxQuery \in CtxQueries
    /\ ctx = CtxIdle

CtxGetContext ==
    /\ ctx.pc = "start"
    /\ ctx' = get_context_for_query(ctxDoc, ctxQuery)
    /\ UNCHANGED <<ctxDoc, ctxQuery>>

(***************************************************************************)
(* The documentation record and the store.  None is Python's None.  A      *)
(* stored file is absent, empty (just opened with 'w'), partial (a write   *)
(* that did not finish) or full.                                           *)
(***************************************************************************)
None == [exists |-> FALSE]

\* _retry_api_call(func, max_retries=3, initial_delay=1)
DefaultMaxRetries == 3
DefaultInitialDelay == 1

RepoName == "octo/docster"
\* what github.get_repo(repo_name) exposes
RepoData == [name |-> "docster", owner |-> "octo",
             html_url |-> "https://github.com/octo/docster",
             description |-> "Docs generator", language |-> "Python"]

\* repo_name.replace('/', '_')
RECURSIVE StorageKey(_)
StorageKey(repo_name) ==
    IF Len(repo_name) = 0 THEN ""
    ELSE (IF Char(repo_name, 1) = "/" THEN "_" ELSE Char(repo_name, 1))
         \o StorageKey(SubSeq(repo_name, 2, Len(repo_name)))

NoDiagrams == [present |-> FALSE, flow |-> ""]

FileDoc(path, text, at) == [file_path |-> path, documentation |-> text, generated_at |-> at]

Documentation(repo, summary, file_docs, at) ==
    [exists |-> TRUE,
     repository |-> [name |-> repo.name, owner |-> repo.owner, url |-> repo.html_url,
                     description |-> repo.description, summary |-> summary],
     files |-> file_docs,
     diagrams |-> NoDiagrams,
     generated_at |-> at]

\* the code fence of Markdown, three grave accents, written with tildes
Fence == "~~~"

\* DocumentationService._generate_markdown
RECURSIVE MarkdownFiles(_)
MarkdownFiles(file_docs) ==
    IF Len(file_docs) = 0 THEN <<>>
    ELSE << "### " \o file_docs[1].file_path, "", file_docs[1].documentation, "" >>
         \o MarkdownFiles(Tail(file_docs))

_generate_markdown(documentation) ==
    Join("\n",
         << "# " \o documentation.repository.name \o " Documentation", "",
            "## Repository", "",
            "**Name:** " \o documentation.repository.name,
            "**Owner:** " \o documentation.repository.owner,
            "**URL:** " \o documentation.repository.url,
            "**Description:** " \o documentation.repository.description, "",
            "## Summary", "",
            documentation.repository.summary, "",
            "## Files", "" >>
         \o MarkdownFiles(documentation.files)
         \o (IF documentation.diagrams.present
             THEN << "## Diagrams", "", "### Flow Diagram", "",
                     Fence \o "mermaid\n" \o documentation.diagrams.flow \o "\n" \o Fence,
                     "" >>
             ELSE <<>>)
         \o << "---", "Generated at: " \o documentation.generated_at >>)

Absent == [state |-> "absent", content |-> None]
Stored(state, content) == [state |-> state, content |-> content]

\* the per-repository directory: documentation.json and documentation.md
EmptyDir == [json |-> Absent, md |-> Absent]
SavedDir(documentation) ==
    [json |-> Stored("full", documentation),
     md |-> Stored("full", _generate_markdown(documentation))]

\* the record an earlier, successful run left behind
PreviousDocumentation ==
    Documentation(RepoData, "An older summary",
                  << FileDoc("old.py", "Docs of old.py", "t0") >>, "t0")

\* datetime.now().isoformat() during the run
Now == "t1"

(***************************************************************************)
(* The LLM calls of AIService, each behind _retry_api_call with the        *)
(* default budget.  fails is how often generate_content raises before it   *)
(* answers.  The result is the text the method returns and whether the     *)
(* retries were exhausted.                                                 *)
(***************************************************************************)
NotAvailableText ==
    "Error: AI service not available. Please check your GEMINI_API_KEY environment variable."
ErrorMessage == "429 quota exceeded"

LLMCall(available, fails, errorPrefix, text) ==
    IF ~available
    THEN [text |-> NotAvailableText, called |-> FALSE, exhausted |-> FALSE]
    ELSE LET r == _retry_api_call(RetryStart, DefaultMaxRetries, DefaultInitialDelay, fails)
         IN  IF r.kind = "raise"
             THEN \* except Exception as e: return f"Error ...: {str(e)}"
                  [text |-> errorPrefix \o ErrorMessage, called |-> TRUE, exhausted |-> TRUE]
             ELSE [text |-> text, called |-> TRUE, exhausted |-> FALSE]

\* AIService.generate_repository_summary
generate_repository_summary(available, fails) ==
    LLMCall(available, fails, "Error generating repository summary: ", "A Flask app")

\* AIService.analyze_code
analyze_code(available, fails, file_path) ==
    LLMCall(available, fails, "Error analyzing code: ", "Docs of " \o file_path)

LLMFailChoices == 0..(DefaultMaxRetries + 1)

(***************************************************************************)
(* DocumentationService.generate_file_documentation.  fetch is what        *)
(* get_repository_contents(repo_name, file_path) does: it returns a file,  *)
(* returns a listing, raises, or returns bytes that are not UTF-8.         *)
(***************************************************************************)
FetchOutcomes == {"file", "dir", "raise", "undecodable"}

\* generate_file_documentation without the isinstance test of line 25 and
\* reading a listing as if it were the file's text
generate_file_documentation_of_listing(available, file_path, fetch, fails) ==
    IF fetch \in {"raise", "undecodable"}
    THEN [doc |-> None, exhausted |-> FALSE, called |-> FALSE, raised |-> FALSE]
    ELSE LET a == analyze_code(available, fails, file_path)
         IN  [doc |-> [exists |-> TRUE, file_doc |-> FileDoc(file_path, a.text, Now)],
              exhausted |-> a.exhausted, called |-> a.called, raised |-> FALSE]

\* generate_file_documentation without the try of line 19: a failed fetch or
\* decode leaves the function as an exception
generate_file_documentation_uncaught(available, file_path, fetch, fails) ==
    IF fetch # "file"
    THEN [doc |-> None, exhausted |-> FALSE, called |-> FALSE,
          raised |-> fetch \in {"raise", "undecodable"}]
    ELSE LET a == analyze_code(available, fails, file_path)
         IN  [doc |-> [exists |-> TRUE, file_doc |-> FileDoc(file_path, a.text, Now)],
              exhausted |-> a.exhausted, called |-> a.called, raised |-> FALSE]

\* generate_file_documentation recording the entry's name (content.name) as
\* file_path instead of the path it was asked for
generate_file_documentation_by_name(available, file_path, fetch, fails) ==
    IF fetch # "file"
    THEN [doc |-> None, exhausted |-> FALSE, called |-> FALSE, raised |-> FALSE]
    ELSE LET a == analyze_code(available, fails, file_path)
             c == PathComponentsOf(file_path)
         IN  [doc |-> [exists |-> TRUE, file_doc |-> FileDoc(c[Len(c)], a.text, Now)],
              exhausted |-> a.exhausted, called |-> a.called, raised |-> FALSE]

\* called: the LLM was asked; raised: an exception left the function (the
\* except of line 46 catches every Exception, so none does)
generate_file_documentation(available, file_path, fetch, fails) ==
    IF fetch # "file"
    THEN [doc |-> None, exhausted |-> FALSE, called |-> FALSE, raised |-> FALSE]
    ELSE LET a == analyze_code(available, fails, file_path)
         IN  [doc |-> [exists |-> TRUE, file_doc |-> FileDoc(file_path, a.text, Now)],
              exhausted |-> a.exhausted, called |-> a.called, raised |-> FALSE]

(***************************************************************************)
(* DocumentationService.generate_repository_documentation, one action per  *)
(* statement that calls a collaborator.  gen.failed names the step whose   *)
(* exception ended the run; gen.exhausted is the set of LLM calls          *)
(* ("summary" or a file path) that used up their retries, gen.llm_calls    *)
(* the set of those that reached the LLM, gen.skipped the paths whose      *)
(* content was not fetched as a file.                                      *)
(***************************************************************************)
GenStart ==
    [pc |-> "get_repository", repo_name |-> RepoName, contents |-> <<>>,
     structure |-> <<>>, summary |-> "", important_files |-> <<>>, file_docs |-> <<>>,
     idx |-> 1, documentation |-> None, result |-> None, failed |-> "",
     exhausted |-> {}, llm_calls |-> {}, skipped |-> {}]

\* except Exception as e: ... return None
RunFailedEmptyRecord(g, step) ==
    [g EXCEPT !.pc = "done", !.failed = step,
              !.result = Documentation(RepoData, "", <<>>, Now)]
RunFailed(g, step) ==
    [g EXCEPT !.pc = "done", !.failed = step, !.result = None]

\* the repository, the LLM and the store a run meets
GenEnvironment ==
    /\ tree \in Trees(GenMaxNodes, {"src"}, {"a.py", "README.md"})
    /\ model_available \in BOOLEAN
    /\ store \in [{StorageKey(RepoName)} -> {EmptyDir, SavedDir(PreviousDocumentation)}]
    /\ storePrev = store

GenInit ==
    /\ GenEnvironment
    /\ gen = GenStart

\* repo = self.github_service.get_repository(repo_name)
GenGetRepository ==
    /\ gen.pc = "get_repository"
    /\ \E ok \in BOOLEAN :
          gen' = IF ok THEN [gen EXCEPT !.pc = "get_contents"]
                 ELSE RunFailed(gen, "get_repository")
    /\ UNCHANGED <<tree, model_available, store, storePrev>>

\* contents = self.github_service.get_repository_contents(repo_name)
GenGetContents ==
    /\ gen.pc = "get_contents"
    /\ \E ok \in BOOLEAN :
          gen' = IF ok
                 THEN [gen EXCEPT !.pc = "build_structure",
                                  !.contents = get_repository_contents(tree, "")]
                 ELSE RunFailed(gen, "get_contents")
    /\ UNCHANGED <<tree, model_available, store, storePrev>>

\* structure = self._build_repo_structure(repo_name, contents)
GenBuildStructure ==
    /\ gen.pc = "build_structure"
    /\ \E fail \in FailChoices(tree) :
          LET r == _build_repo_structure(tree, fail, gen.contents)
          IN  gen' = IF r.raised THEN RunFailed(gen, "build_structure")
                     ELSE [gen EXCEPT !.pc = "summary", !.structure = r.structure]
    /\ UNCHANGED <<tree, model_available, store, storePrev>>

\* repo_data = {..., 'topics': repo.get_topics(), ...}
\* summary = self.ai_service.generate_repository_summary(repo_data)
GenSummary ==
    /\ gen.pc = "summary"
    /\ \E topics_ok \in BOOLEAN, fails \in LLMFailChoices :
          LET r == generate_repository_summary(model_available, fails)
          IN  gen' = IF ~topics_ok THEN RunFailed(gen, "get_topics")
                     ELSE [gen EXCEPT !.pc = "important_files", !.summary = r.text,
                                      !.exhausted = IF r.exhausted THEN @ \cup {"summary"}
                                                    ELSE @,
                                      !.llm_calls = IF r.called THEN @ \cup {"summary"}
                                                    ELSE @]
    /\ UNCHANGED <<tree, model_available, store, storePrev>>

\* important_files = self._get_important_files(repo_name, contents)
GenImportantFiles ==
    /\ gen.pc = "important_files"
    /\ \E fail \in FailChoices(tree) :
          LET r == _get_important_files(tree, fail, gen.contents)
          IN  gen' = IF r.raised THEN RunFailed(gen, "important_files")
                     ELSE [gen EXCEPT !.pc = "files", !.important_files = r.files,
                                      !.file_docs = <<>>, !.idx = 1]
    /\ UNCHANGED <<tree, model_available, store, storePrev>>

\* a loop body that saves the record compiled so far after each file
GenFileDocSaving ==
    /\ gen.pc = "files"
    /\ gen.idx <= Len(gen.important_files)
    /\ \E fetch \in FetchOutcomes, fails \in LLMFailChoices :
          LET file_path == gen.important_files[gen.idx]
              r == generate_file_documentation(model_available, file_path, fetch, fails)
              docs == IF r.doc.exists THEN Append(gen.file_docs, r.doc.file_doc)
                      ELSE gen.file_docs
          IN  /\ gen' = [gen EXCEPT !.idx = @ + 1, !.file_docs = docs,
                                    !.exhausted = IF r.exhausted THEN @ \cup {file_path}
                                                  ELSE @,
                                    !.llm_calls = IF r.called THEN @ \cup {file_path}
                                                  ELSE @,
                                    !.skipped = IF fetch # "file" THEN @ \cup {file_path}
                                                ELSE @]
              /\ store' = [store EXCEPT ![StorageKey(gen.repo_name)] =
                               SavedDir(Documentation(RepoData, gen.summary, docs, Now))]
    /\ UNCHANGED <<tree, model_available, storePrev>>

\* for file_path in important_files: one pass of the loop body
GenFileDoc ==
    /\ gen.pc = "files"
    /\ gen.idx <= Len(gen.important_files)
    /\ \E fetch \in FetchOutcomes, fails \in LLMFailChoices :
          LET file_path == gen.important_files[gen.idx]
              r == generate_file_documentation(model_available, file_path, fetch, fails)
          IN  gen' = IF r.raised THEN RunFailed(gen, "file_doc")
                     ELSE [gen EXCEPT !.idx = @ + 1,
                                 !.file_docs = IF r.doc.exists THEN Append(@, r.doc.file_doc)
                                               ELSE @,
                                 !.exhausted = IF r.exhausted THEN @ \cup {file_path}
                                               ELSE @,
                                 !.llm_calls = IF r.called THEN @ \cup {file_path}
                                               ELSE @,
                                 !.skipped = IF fetch # "file" THEN @ \cup {file_path}
                                             ELSE @]
    /\ UNCHANGED <<tree, model_available, store, storePrev>>

\* documentation = {...}: the loop is over, the record is compiled
GenCompile ==
    /\ gen.pc = "files"
    /\ gen.idx > Len(gen.important_files)
    /\ gen' = [gen EXCEPT !.pc = "open_json",
                          !.documentation =
                              Documentation(RepoData, gen.summary, gen.file_docs, Now)]
    /\ UNCHANGED <<tree, model_available, store, storePrev>>

(***************************************************************************)
(* DocumentationService._save_documentation, one action per file           *)
(* operation.  Each can raise (a full disk, a permission): the exception   *)
(* ends the run in generate_repository_documentation's handler.            *)
(***************************************************************************)
Key == StorageKey(gen.repo_name)

\* os.makedirs(repo_dir); open(doc_path, 'w'): the file is truncated
GenOpenJson ==
    /\ gen.pc = "open_json"
    /\ \E ok \in BOOLEAN :
          IF ok
          THEN /\ store' = [store EXCEPT ![Key].json = Stored("empty", None)]
               /\ gen' = [gen EXCEPT !.pc = "dump_json"]
          ELSE /\ store' = store
               /\ gen' = RunFailed(gen, "open_json")
    /\ UNCHANGED <<tree, model_available, storePrev>>

\* json.dump(documentation, f, indent=2), and the file is closed
GenDumpJson ==
    /\ gen.pc = "dump_json"
    /\ \E ok \in BOOLEAN :
          IF ok
          THEN /\ store' = [store EXCEPT ![Key].json = Stored("full", gen.documentation)]
               /\ gen' = [gen EXCEPT !.pc = "open_md"]
          ELSE /\ store' = [store EXCEPT ![Key].json = Stored("partial", gen.documentation)]
               /\ gen' = RunFailed(gen, "dump_json")
    /\ UNCHANGED <<tree, model_available, storePrev>>

\* markdown_content = self._generate_markdown(documentation); open(md_path, 'w')
GenOpenMd ==
    /\ gen.pc = "open_md"
    /\ \E ok \in BOOLEAN :
          IF ok
          THEN /\ store' = [store EXCEPT ![Key].md = Stored("empty", None)]
               /\ gen' = [gen EXCEPT !.pc = "write_md"]
          ELSE /\ store' = store
               /\ gen' = RunFailed(gen, "open_md")
    /\ UNCHANGED <<tree, model_available, storePrev>>

\* f.write(markdown_content), the file is closed; return documentation
GenWriteMd ==
    /\ gen.pc = "write_md"
    /\ \E ok \in BOOLEAN :
          IF ok
          THEN /\ store' = [store EXCEPT ![Key].md =
                               Stored("full", _generate_markdown(gen.documentation))]
               /\ gen' = [gen EXCEPT !.pc = "done", !.result = gen.documentation]
          ELSE /\ store' = [store EXCEPT ![Key].md =
                               Stored("partial", _generate_markdown(gen.documentation))]
               /\ gen' = RunFailed(gen, "write_md")
    /\ UNCHANGED <<tree, model_available, storePrev>>

(***************************************************************************)
(* The store under several repository names: _save_documentation writes    *)
(* under repo_name.replace('/', '_') and get_documentation reads there.    *)
(***************************************************************************)
MaxGenerations == 3       \* completed generation runs in one behaviour

\* owner/repo names a request can carry
RepoNames == {"a/b", "a_b/c", "a/b_c", "b/a"}

\* the text before and after the first '/'
RECURSIVE BeforeSlash(_)
BeforeSlash(s) ==
    IF Len(s) = 0 \/ Char(s, 1) = "/" THEN ""
    ELSE Char(s, 1) \o BeforeSlash(SubSeq(s, 2, Len(s)))

AfterSlash(s) == SubSeq(s, Len(BeforeSlash(s)) + 2, Len(s))

\* what github.get_repo(repo_name) exposes for an owner/repo name
RepoDataOf(repo_name) ==
    [name |-> AfterSlash(repo_name), owner |-> BeforeSlash(repo_name),
     html_url |-> "https://github.com/" \o repo_name,
     description |-> "Docs generator", language |-> "Python"]

\* the names github.get_repo(repo_name) finds a repository for: a GitHub
\* login holds no underscore, a repository name may
ExistingRepos == {n \in RepoNames : ~Contains(BeforeSlash(n), "_")}

\* the record the n-th completed run compiles for repo_name
RecordOf(repo_name, n) ==
    Documentation(RepoDataOf(repo_name), "A Flask app", <<>>, "t" \o ToString(n))

\* _save_documentation(repo_name, documentation), both files written in full
_save_documentation(st, repo_name, documentation) ==
    LET key == StorageKey(repo_name)
    IN  [k \in DOMAIN st \cup {key} |->
            IF k = key THEN SavedDir(documentation) ELSE st[k]]

\* a get_documentation that removes documentation.json once it is loaded
get_documentation_consuming(st, repo_name) ==
    LET key == StorageKey(repo_name)
    IN  IF key \notin DOMAIN st \/ st[key].json.state = "absent"
        THEN [raised |-> FALSE, value |-> None, st |-> st]
        ELSE IF st[key].json.state = "full"
        THEN [raised |-> FALSE, value |-> st[key].json.content,
              st |-> [st EXCEPT ![key].json = Absent]]
        ELSE [raised |-> TRUE, value |-> None, st |-> st]

\* DocumentationService.get_documentation: os.path.exists, then json.load,
\* which raises JSONDecodeError on a file that is empty or cut short; st is
\* the store as the call leaves it (the file is only opened with 'r')
get_documentation(st, repo_name) ==
    LET key == StorageKey(repo_name)
    IN  IF key \notin DOMAIN st \/ st[key].json.state = "absent"
        THEN [raised |-> FALSE, value |-> None, st |-> st]
        ELSE IF st[key].json.state = "full"
        THEN [raised |-> FALSE, value |-> st[key].json.content, st |-> st]
        ELSE [raised |-> TRUE, value |-> None, st |-> st]

\* n counts the generation runs completed before the call, before is the
\* store when the call was made, again what a second call returned
LookupIdle ==
    [pc |-> "idle", n |-> 0, repo_name |-> "", raised |-> FALSE, value |-> None,
     before |-> <<>>, again |-> None]

KeysInit ==
    /\ store = <<>>
    /\ storePrev = store
    /\ generated = [n \in RepoNames |-> None]
    /\ lookup = LookupIdle

\* a generation run for repo_name that reaches the end of _save_documentation
KeysGenerate ==
    /\ lookup.n < MaxGenerations
    /\ \E repo_name \in ExistingRepos :
          LET documentation == RecordOf(repo_name, lookup.n + 1)
          IN  /\ store' = _save_documentation(store, repo_name, documentation)
              /\ generated' = [generated EXCEPT ![repo_name] = documentation]
    /\ lookup' = [LookupIdle EXCEPT !.n = lookup.n + 1]
    /\ UNCHANGED storePrev

\* documentation_service.get_documentation(repo_name)
KeysGetDocumentation ==
    /\ lookup.pc = "idle"
    /\ \E repo_name \in RepoNames :
          LET r == get_documentation(store, repo_name)
          IN  /\ lookup' = [lookup EXCEPT !.pc = "done", !.repo_name = repo_name,
                                          !.raised = r.raised, !.value = r.value,
                                          !.before = store]
              /\ store' = r.st
    /\ UNCHANGED <<storePrev, generated>>

\* a second get_documentation(repo_name) for the same name, no run in between
KeysGetDocumentationAgain ==
    /\ lookup.pc = "done"
    /\ LET r == get_documentation(store, lookup.repo_name)
       IN  /\ lookup' = [lookup EXCEPT !.pc = "again",
                            !.again = [raised |-> r.raised, value |-> r.value]]
           /\ store' = r.st
    /\ UNCHANGED <<storePrev, generated>>

(***************************************************************************)
(* The generate route on the module-level github_service, handled by one   *)
(* thread per request (app.run serves threaded).  A GitHub client is       *)
(* written as the token it was built with, "" being None.  Each request    *)
(* records in used the client every GitHub call of its handler went        *)
(* through ("" when it found github to be None).                           *)
(***************************************************************************)
MaxRequests == 2          \* generate requests in flight together

\* request r carries the token "tok<r>"
TokenOf(r) == "tok" \o ToString(r)

\* GitHubService.access_token setter: Github(token), validated by get_user()
SetAccessToken(token, valid) ==
    [_access_token |-> token,
     github |-> IF token # "" /\ valid THEN token ELSE ""]

ReqStart(r, valid) ==
    [pc |-> "set_token", token |-> TokenOf(r), valid |-> valid, used |-> <<>>, status |-> 0]

Respond(req, status) == [req EXCEPT !.pc = "done", !.status = status]

CredInit ==
    /\ github_service = [_access_token |-> "", github |-> ""]
    /\ \E valid \in [1..MaxRequests -> BOOLEAN] :
          reqs = [r \in 1..MaxRequests |-> ReqStart(r, valid[r])]

\* github_service.access_token = token
CredSetToken ==
    \E r \in DOMAIN reqs :
        /\ reqs[r].pc = "set_token"
        /\ github_service' = SetAccessToken(reqs[r].token, reqs[r].valid)
        /\ reqs' = [reqs EXCEPT ![r].pc = "check_client",
                                ![r].used = Append(@, reqs[r].token)]

\* if not github_service.github: return ..., 401
CredCheckClient ==
    \E r \in DOMAIN reqs :
        /\ reqs[r].pc = "check_client"
        /\ reqs' = [reqs EXCEPT ![r] = IF github_service.github = ""
                                        THEN Respond(@, 401)
                                        ELSE [@ EXCEPT !.pc = "get_user"]]
        /\ UNCHANGED github_service

\* user = github_service.github.get_user()
CredGetUser ==
    \E r \in DOMAIN reqs :
        /\ reqs[r].pc = "get_user"
        /\ reqs' = [reqs EXCEPT ![r] =
                       LET u == [@ EXCEPT !.used = Append(@, github_service.github)]
                       IN  IF github_service.github = "" THEN Respond(u, 401)
                           ELSE [u EXCEPT !.pc = "get_repository"]]
        /\ UNCHANGED github_service

\* repo = github_service.get_repository(repo_name)
CredGetRepository ==
    \E r \in DOMAIN reqs :
        /\ reqs[r].pc = "get_repository"
        /\ reqs' = [reqs EXCEPT ![r] =
                       LET u == [@ EXCEPT !.used = Append(@, github_service.github)]
                       IN  IF github_service.github = "" THEN Respond(u, 404)
                           ELSE [u EXCEPT !.pc = "gen_get_repository"]]
        /\ UNCHANGED github_service

\* generate_repository_documentation: repo = self.github_service.get_repository(repo_name)
CredGenGetRepository ==
    \E r \in DOMAIN reqs :
        /\ reqs[r].pc = "gen_get_repository"
        /\ reqs' = [reqs EXCEPT ![r] =
                       LET u == [@ EXCEPT !.used = Append(@, github_service.github)]
                       IN  IF github_service.github = "" THEN Respond(u, 500)
                           ELSE [u EXCEPT !.pc = "gen_get_contents"]]
        /\ UNCHANGED github_service

\* generate_repository_documentation: contents = ...get_repository_contents(repo_name)
CredGenGetContents ==
    \E r \in DOMAIN reqs :
        /\ reqs[r].pc = "gen_get_contents"
        /\ reqs' = [reqs EXCEPT ![r] =
                       LET u == [@ EXCEPT !.used = Append(@, github_service.github)]
                       IN  IF github_service.github = "" THEN Respond(u, 500)
                           ELSE Respond(u, 200)]
        /\ UNCHANGED github_service

(***************************************************************************)
(* A reader beside a generation run: one get_documentation(repo_name)      *)
(* call, made by another request at any point of the run.                  *)
(***************************************************************************)
ReadDocumentation ==
    /\ lookup.pc = "idle"
    /\ gen.pc # "off"
    /\ LET r == get_documentation(store, gen.repo_name)
       IN  lookup' = [lookup EXCEPT !.pc = "done", !.repo_name = gen.repo_name,
                                    !.raised = r.raised, !.value = r.value]
    /\ UNCHANGED <<genVars, tree, generated>>

(***************************************************************************)
(* AIService.generate_mermaid_diagram.  The LLM raises fails times and     *)
(* then answers with text.  Fence stands for the three grave accents.      *)
(***************************************************************************)
EndsWith(s, p) == Len(p) <= Len(s) /\ SubSeq(s, Len(s) - Len(p) + 1, Len(s)) = p

\* str.strip()
RECURSIVE LStrip(_)
LStrip(s) ==
    IF Len(s) > 0 /\ Char(s, 1) \in Whitespace THEN LStrip(SubSeq(s, 2, Len(s))) ELSE s

RECURSIVE RStrip(_)
RStrip(s) ==
    IF Len(s) > 0 /\ Char(s, Len(s)) \in Whitespace THEN RStrip(SubSeq(s, 1, Len(s) - 1))
    ELSE s

Strip(s) == RStrip(LStrip(s))

\* str.splitlines(): lines end at "\n", "\r" or "\r\n"; no empty last line
RECURSIVE SplitLines(_)
SplitLines(s) ==
    IF Len(s) = 0 THEN <<>>
    ELSE LET breaks == {i \in 1..Len(s) : Char(s, i) \in {"\n", "\r"}}
         IN  IF breaks = {} THEN <<s>>
             ELSE LET i == CHOOSE b \in breaks : \A c \in breaks : b <= c
                      skip == IF Char(s, i) = "\r" /\ i < Len(s) /\ Char(s, i + 1) = "\n"
                              THEN 2 ELSE 1
                  IN  <<SubSeq(s, 1, i - 1)>> \o SplitLines(SubSeq(s, i + skip, Len(s)))

\* the two canned diagrams, as the triple-quoted literals spell them
PlaceholderNotAvailable ==
    Fence \o "mermaid\n    flowchart LR\n        "
          \o "E[Error] -->|AI Service Not Available| M[Check API Key]\n    " \o Fence
PlaceholderFailed ==
    Fence \o "mermaid\n    flowchart LR\n        "
          \o "E[Error] -->|Generation failed| M[Please try again]\n    " \o Fence

\* ''.join(line for line in diagram.splitlines()
\*         if not line.startswith(fence) and not line.endswith(fence))
RECURSIVE DropFenceLines(_)
DropFenceLines(lines) ==
    IF Len(lines) = 0 THEN ""
    ELSE (IF ~StartsWith(lines[1], Fence) /\ ~EndsWith(lines[1], Fence) THEN lines[1] ELSE "")
         \o DropFenceLines(Tail(lines))

CleanDiagram(diagram) ==
    IF Contains(diagram, Fence) THEN Strip(DropFenceLines(SplitLines(diagram))) ELSE diagram

\* if not diagram.startswith("flowchart"): diagram = "flowchart LR\n" + diagram
EnsureStart(diagram) ==
    IF ~StartsWith(diagram, "flowchart") THEN "flowchart LR\n" \o diagram ELSE diagram

\* the loop over lines: subgraph and end lines bare, the others indented
FormatLine(raw) ==
    LET line == Strip(raw)
    IN  IF StartsWith(line, "subgraph") THEN line
        ELSE IF line = "end" THEN line
        ELSE "    " \o line

FormatDiagram(diagram) ==
    LET lines == SplitLines(diagram)
    IN  Join("\n", [i \in 1..Len(lines) |-> FormatLine(lines[i])])

generate_mermaid_diagram(available, fails, text) ==
    IF ~available THEN PlaceholderNotAvailable
    ELSE LET r == _retry_api_call(RetryStart, DefaultMaxRetries, DefaultInitialDelay, fails)
         IN  IF r.kind = "raise" THEN PlaceholderFailed
             ELSE LET diagram == FormatDiagram(EnsureStart(CleanDiagram(Strip(text))))
                  IN  IF ~Contains(diagram, "-->")
                      THEN \* raise ValueError, caught at line 336
                           PlaceholderFailed
                      ELSE Fence \o "mermaid\n" \o diagram \o "\n" \o Fence

\* texts the LLM answers with
MermaidTexts ==
    { "flowchart LR\nA --> B",
      "A --> B",
      "graph LR\nA --> B",
      "flowchart LR\nA",
      "hello",
      "",
      "  flowchart TD\nsubgraph X\n  A --> B\nend\n",
      Fence \o "mermaid\nflowchart LR\nA --> B\n" \o Fence }

MermaidIdle == [pc |-> "start", fails |-> 0, text |-> "", result |-> ""]

MermaidInit ==
    /\ model_available \in BOOLEAN
    /\ \E fails \in LLMFailChoices, text \in MermaidTexts :
          mermaid = [MermaidIdle EXCEPT !.fails = fails, !.text = text]

\* flow_diagram = self.ai_service.generate_mermaid_diagram(code_analysis)
MermaidGenerate ==
    /\ mermaid.pc = "start"
    /\ mermaid' = [mermaid EXCEPT !.pc = "done",
                       !.result = generate_mermaid_diagram(model_available, mermaid.fails,
                                                           mermaid.text)]
    /\ UNCHANGED model_available

(***************************************************************************)
(* DocumentationService.generate_documentation, the diagram variant:       *)
(* analyze_repository, generate_mermaid_diagram, then the run of           *)
(* generate_repository_documentation (the Gen actions), then the diagram   *)
(* is put into the record that run returned.                               *)
(***************************************************************************)
\* the subsequences of a sequence of paths: the files whose content could be
\* fetched and decoded (the others are skipped at lines 179-181)
RECURSIVE SubSequences(_)
SubSequences(paths) ==
    IF Len(paths) = 0 THEN {<<>>}
    ELSE LET rest == SubSequences(Tail(paths))
         IN  rest \cup {<<paths[1]>> \o r : r \in rest}

CodeFile(file_path) == [file |-> file_path, content |-> "content of " \o file_path]

\* DocumentationService.analyze_repository: what it returns, or that it raised
analyze_repository(root, repo_ok, contents_ok, fail, fetched) ==
    IF ~repo_ok \/ ~contents_ok THEN [raised |-> TRUE, value |-> None]
    ELSE LET contents == get_repository_contents(root, "")
             important == _get_important_files(root, fail, contents)
             structure == _build_repo_structure(root, fail, contents)
         IN  IF important.raised \/ structure.raised THEN [raised |-> TRUE, value |-> None]
             ELSE [raised |-> FALSE,
                   value |-> [exists |-> TRUE,
                              repository |-> RepoData.name,
                              files |-> [i \in 1..Len(fetched) |-> CodeFile(fetched[i])],
                              structure |-> structure.structure]]

\* the answers of the LLM to the diagram prompt
DiagTexts == {"flowchart LR\nA --> B", "hello"}

DiagStart ==
    [pc |-> "analyze_repository", code_analysis |-> None, flow_diagram |-> "",
     result |-> None, failed |-> ""]

\* except Exception as e: ... return None
DiagFailed(d, step) == [d EXCEPT !.pc = "done", !.failed = step, !.result = None]

DiagInit ==
    /\ GenEnvironment
    /\ gen = [GenStart EXCEPT !.pc = "not_called"]
    /\ diag = DiagStart

\* code_analysis = self.analyze_repository(repo_name)
DiagAnalyze ==
    /\ diag.pc = "analyze_repository"
    /\ \E repo_ok, contents_ok \in BOOLEAN, fail \in FailChoices(tree) :
          \E fetched \in SubSequences(
                 _get_important_files(tree, {}, get_repository_contents(tree, "")).files) :
              LET r == analyze_repository(tree, repo_ok, contents_ok, fail, fetched)
              IN  diag' = IF r.raised THEN DiagFailed(diag, "analyze_repository")
                          ELSE [diag EXCEPT !.pc = "generate_mermaid_diagram",
                                            !.code_analysis = r.value]
    /\ UNCHANGED <<tree, genVars>>

\* flow_diagram = self.ai_service.generate_mermaid_diagram(code_analysis), and
\* generate_repository_documentation(repo_name) is entered
DiagMermaid ==
    /\ diag.pc = "generate_mermaid_diagram"
    /\ \E fails \in {0, DefaultMaxRetries + 1}, text \in DiagTexts :
          diag' = [diag EXCEPT !.pc = "generate_repository_documentation",
                               !.flow_diagram =
                                   generate_mermaid_diagram(model_available, fails, text)]
    /\ gen' = [gen EXCEPT !.pc = "get_repository"]
    /\ UNCHANGED <<tree, model_available, store, storePrev>>

\* documentation['diagrams'] = {'flow': flow_diagram}; return documentation.
\* On None the assignment raises TypeError and the handler returns None.
DiagAttach ==
    /\ diag.pc = "generate_repository_documentation"
    /\ gen.pc = "done"
    /\ diag' = IF gen.result = None
               THEN DiagFailed(diag, "generate_repository_documentation")
               ELSE [diag EXCEPT !.pc = "done",
                                 !.result = [gen.result EXCEPT !.diagrams =
                                                [present |-> TRUE,
                                                 flow |-> diag.flow_diagram]]]
    /\ UNCHANGED <<tree, genVars>>

(***************************************************************************)
(* The query route: chat_routes.query, ChatService.answer_question,        *)
(* AIService.answer_question and ChatService._save_conversation.  One      *)
(* action handles one request; requests follow one another.  The clock     *)
(* datetime.now() reads never runs backwards in the model, and two         *)
(* readings can be equal.                                                  *)
(***************************************************************************)
MaxExchanges == 3         \* query requests handled in one behaviour

ChatRepos == {"a/b", "b/a"}
Questions == {"auth", "intro"}

\* str.replace(old, new) for a one-character old
RECURSIVE Replace(_, _, _)
Replace(s, old, new) ==
    IF Len(s) = 0 THEN ""
    ELSE (IF Char(s, 1) = old THEN new ELSE Char(s, 1))
         \o Replace(SubSeq(s, 2, Len(s)), old, new)

\* datetime.now().isoformat() at clock reading t
IsoFormat(t) == "2024-05-01T10:00:0" \o ToString(t)

\* the record the documentation store holds for the repository asked about
ChatDocumentation ==
    [exists |-> TRUE, repository |-> CtxRepository,
     files |-> << [file_path |-> "src/a.py", documentation |-> "handles auth"] >>]

\* AIService.answer_question(question, context)
answer_question(available, fails, question, context) ==
    LLMCall(available, fails, "Error answering question: ", "An answer to " \o question)

\* ChatService._save_conversation: the files of data/chats afterwards
_save_conversation(files, repo_name, question, answer, t) ==
    LET key == StorageKey(repo_name)
        timestamp == Replace(IsoFormat(t), ":", "-")
        conversation_file == "conversation_" \o timestamp \o ".json"
        conversation == [repo_name |-> repo_name, question |-> question,
                         answer |-> answer, timestamp |-> timestamp]
        dir == IF key \in DOMAIN files THEN files[key] ELSE <<>>
    IN  [k \in DOMAIN files \cup {key} |->
            IF k = key
            THEN [f \in DOMAIN dir \cup {conversation_file} |->
                     IF f = conversation_file THEN conversation ELSE dir[f]]
            ELSE files[k]]

\* what the route answers: the envelope's status, the HTTP code, the body
Envelope(status, code, body) == [status |-> status, code |-> code, body |-> body]

NoExchange ==
    [llm_called |-> FALSE, llm_failed |-> FALSE, context |-> "",
     response |-> Envelope("", 0, None)]

ChatStart ==
    [pc |-> "serving", n |-> 0, clock |-> 1,
     completed |-> [r \in ChatRepos |-> <<>>], last |-> NoExchange]

ChatInit ==
    /\ model_available \in BOOLEAN
    /\ ctxDoc \in {NoDoc, ChatDocumentation}
    /\ chats = <<>>
    /\ chat = ChatStart

\* POST /api/chat/query with body {repo_name, question}; "" is a field that
\* is missing.  fails is how often generate_content raises, t the reading of
\* datetime.now() in _save_conversation.
ChatQuery ==
    /\ chat.pc = "serving"
    /\ chat.n < MaxExchanges
    /\ \E repo_name \in ChatRepos \cup {""}, question \in Questions \cup {""},
          fails \in {0, DefaultMaxRetries + 1}, t \in chat.clock..MaxExchanges :
          IF repo_name = "" \/ question = ""
          THEN /\ chat' = [chat EXCEPT !.n = @ + 1,
                              !.last = [NoExchange EXCEPT !.response =
                                  Envelope("error", 400, None)]]
               /\ chats' = chats
          ELSE LET context == get_context_for_query(ctxDoc, question).ret
                   a == answer_question(model_available, fails, question, context)
                   timestamp == Replace(IsoFormat(t), ":", "-")
                   conversation == [repo_name |-> repo_name, question |-> question,
                                    answer |-> a.text, timestamp |-> timestamp]
               IN  /\ chats' = _save_conversation(chats, repo_name, question, a.text, t)
                   /\ chat' = [chat EXCEPT
                          !.n = @ + 1,
                          !.clock = t,
                          !.completed[repo_name] = Append(@, conversation),
                          !.last = [llm_called |-> a.called,
                                    llm_failed |-> a.exhausted \/ ~a.called,
                                    context |-> context,
                                    response |-> Envelope("success", 200,
                                        [exists |-> TRUE, question |-> question,
                                         answer |-> a.text, repo_name |-> repo_name])]]
    /\ UNCHANGED <<model_available, ctxDoc>>

(***************************************************************************)
(* The routes of documentation_routes.py and chat_routes.py, one request   *)
(* at a time.  A request is its body fields ("" for a field that is        *)
(* missing or empty, has_body FALSE for a body that is null), its          *)
(* Authorization header and the session's github_token.  A handler yields  *)
(* the envelope it answers and its effects in order: "github" and "llm"    *)
(* for a call to that collaborator, "read_docs", "write_docs",             *)
(* "write_chats" for the stores, "export" for the export library.          *)
(***************************************************************************)
Endpoints == {"generate", "file", "export", "query", "update", "context"}

\* the body fields each route reads with data.get
BodyFields(endpoint) ==
    CASE endpoint = "generate" -> {"repo_name"}
      [] endpoint = "file"     -> {"repo_name", "file_path"}
      [] endpoint = "export"   -> {"repo_name"}
      [] endpoint = "query"    -> {"repo_name", "question"}
      [] endpoint = "update"   -> {"repo_name", "file_path", "suggestion"}
      [] endpoint = "context"  -> {"repo_name", "query"}

\* the fields each route tests with not: all it reads
RequiredFieldsFileLax(endpoint) ==
    BodyFields(endpoint) \ (IF endpoint = "file" THEN {"file_path"} ELSE {})
RequiredFields(endpoint) == BodyFields(endpoint)

FieldValue(name) ==
    CASE name = "repo_name"  -> RepoName
      [] name = "file_path"  -> "src/a.py"
      [] name = "question"   -> "auth"
      [] name = "suggestion" -> "say more"
      [] name = "query"      -> "auth"

AuthorizationHeaders == {"", "Bearer tokA", "Bearer ", "Basic abc"}
SessionTokens == {"", "tokS"}

\* the requests an endpoint can get: its own fields present or not
Requests(endpoint) ==
    {[endpoint |-> endpoint, has_body |-> has_body, data |-> data,
      format |-> format, authorization |-> authorization, session |-> session] :
        has_body \in BOOLEAN,
        data \in [BodyFields(endpoint) -> BOOLEAN],
        format \in IF endpoint = "export" THEN {"pdf", "txt"} ELSE {"pdf"},
        authorization \in AuthorizationHeaders,
        session \in SessionTokens}

\* data.get(name), "" when the field is not there
Get(req, name) ==
    IF name \in DOMAIN req.data /\ req.data[name] THEN FieldValue(name) ELSE ""

\* not a or not b ...: a field the route requires is missing
MissingField(req) ==
    \E name \in RequiredFields(req.endpoint) : Get(req, name) = ""

\* token.split(' ')[1]
RECURSIVE UpToSpace(_)
UpToSpace(s) ==
    IF Len(s) = 0 \/ Char(s, 1) = " " THEN ""
    ELSE Char(s, 1) \o UpToSpace(SubSeq(s, 2, Len(s)))

\* the token of the header if it is a Bearer header, else the session's
RequestToken(req) ==
    IF req.authorization # "" /\ StartsWith(req.authorization, "Bearer ")
    THEN UpToSpace(SubSeq(req.authorization, 8, Len(req.authorization)))
    ELSE req.session

Reply(status, code, effects) == [status |-> status, code |-> code, effects |-> effects]

\* what the collaborators do during one request
Outcomes ==
    [token_valid : BOOLEAN, user_ok : BOOLEAN, repo_ok : BOOLEAN, work_ok : BOOLEAN,
     doc_exists : BOOLEAN, file_documented : BOOLEAN]

\* lines 37-76 / 205-248: the token, the client, get_user, the repository
AuthenticateGitHub(req, env, then) ==
    IF RequestToken(req) = "" THEN Reply("error", 401, <<>>)
    ELSE IF ~env.token_valid THEN Reply("error", 401, <<"github">>)
    ELSE IF ~env.user_ok THEN Reply("error", 401, <<"github", "github">>)
    ELSE IF ~env.repo_ok THEN Reply("error", 404, <<"github", "github", "github">>)
    ELSE [then EXCEPT !.effects = <<"github", "github", "github">> \o @]

\* documentation_routes.generate
route_generate(req, env) ==
    IF ~req.has_body THEN Reply("error", 400, <<>>)
    ELSE IF MissingField(req) THEN Reply("error", 400, <<>>)
    ELSE AuthenticateGitHub(req, env,
             IF env.work_ok THEN Reply("success", 200, <<"github", "llm", "write_docs">>)
             ELSE Reply("error", 500, <<"github">>))

\* documentation_routes.generate_file_documentation
route_file(req, env) ==
    IF ~req.has_body THEN Reply("error", 400, <<>>)
    ELSE IF MissingField(req) THEN Reply("error", 400, <<>>)
    ELSE AuthenticateGitHub(req, env,
             IF env.work_ok THEN Reply("success", 200, <<"github", "github", "llm">>)
             ELSE Reply("error", 500, <<"github", "github">>))

\* documentation_routes.export; data.get on None raises AttributeError
route_export(req, env) ==
    IF ~req.has_body THEN Reply("error", 500, <<>>)
    ELSE IF MissingField(req) THEN Reply("error", 400, <<>>)
    ELSE IF req.format \notin {"pdf", "docx"} THEN Reply("error", 400, <<>>)
    ELSE IF ~env.doc_exists THEN Reply("error", 404, <<"read_docs">>)
    ELSE IF env.work_ok THEN Reply("success", 200, <<"read_docs", "export">>)
    ELSE Reply("error", 500, <<"read_docs", "export">>)

\* chat_routes.query
route_query(req, env) ==
    IF ~req.has_body THEN Reply("error", 500, <<>>)
    ELSE IF MissingField(req) THEN Reply("error", 400, <<>>)
    ELSE IF env.work_ok THEN Reply("success", 200, <<"read_docs", "llm", "write_chats">>)
    ELSE \* _save_conversation raises
         Reply("error", 500, <<"read_docs", "llm", "write_chats">>)

\* what get_documentation(repo_name) returns during the request
DocumentationIn(env) ==
    IF ~env.doc_exists THEN NoDoc
    ELSE IF env.file_documented THEN ChatDocumentation
    ELSE [ChatDocumentation EXCEPT !.files = <<>>]

\* ChatService.request_documentation_update: the dict it returns
request_documentation_update(documentation, file_path, suggestion) ==
    IF ~documentation.exists
    THEN [status |-> "error",
          message |-> "No documentation available for this repository."]
    ELSE IF \A i \in 1..Len(documentation.files) :
                documentation.files[i].file_path # file_path
    THEN [status |-> "error",
          message |-> "No documentation found for file: " \o file_path]
    ELSE [status |-> "success",
          message |-> "Documentation update requested for " \o file_path,
          suggestion |-> suggestion]

\* chat_routes.request_update: the dict of the service goes into the
\* envelope's response field
route_update(req, env) ==
    IF ~req.has_body THEN Reply("error", 500, <<>>)
    ELSE IF MissingField(req) THEN Reply("error", 400, <<>>)
    ELSE IF RequestToken(req) = "" THEN Reply("error", 401, <<>>)
    ELSE [status |-> "success", code |-> 200, effects |-> <<"github", "read_docs">>,
          response |-> request_documentation_update(DocumentationIn(env),
                           Get(req, "file_path"), Get(req, "suggestion"))]

\* chat_routes.get_context
route_context(req, env) ==
    IF ~req.has_body THEN Reply("error", 500, <<>>)
    ELSE IF MissingField(req) THEN Reply("error", 400, <<>>)
    ELSE Reply("success", 200, <<"read_docs">>)

HttpIdle == [pc |-> "idle"]

\* env is kept beside the request: what the collaborators held when it came
Handled(req, env, reply) == [pc |-> "done", request |-> req, env |-> env, reply |-> reply]

HttpInit == http = HttpIdle

HttpGenerate ==
    /\ http.pc = "idle"
    /\ \E req \in Requests("generate"), env \in Outcomes :
          http' = Handled(req, env, route_generate(req, env))

HttpFile ==
    /\ http.pc = "idle"
    /\ \E req \in Requests("file"), env \in Outcomes :
          http' = Handled(req, env, route_file(req, env))

HttpExport ==
    /\ http.pc = "idle"
    /\ \E req \in Requests("export"), env \in Outcomes :
          http' = Handled(req, env, route_export(req, env))

HttpQuery ==
    /\ http.pc = "idle"
    /\ \E req \in Requests("query"), env \in Outcomes :
          http' = Handled(req, env, route_query(req, env))

HttpUpdate ==
    /\ http.pc = "idle"
    /\ \E req \in Requests("update"), env \in Outcomes :
          http' = Handled(req, env, route_update(req, env))

HttpContext ==
    /\ http.pc = "idle"
    /\ \E req \in Requests("context"), env \in Outcomes :
          http' = Handled(req, env, route_context(req, env))

(***************************************************************************)
(* AIService's five methods that ask the LLM, one call of one of them,     *)
(* beside one call of a walker.  fails is how often generate_content       *)
(* raises before it answers.                                               *)
(***************************************************************************)
\* analyze_commit with generate_content called outside _retry_api_call
analyze_commit_unwrapped(available, fails, commit_message) ==
    IF ~available
    THEN [text |-> NotAvailableText, called |-> FALSE, exhausted |-> FALSE]
    ELSE IF fails > 0
    THEN [text |-> "Error analyzing commit: " \o ErrorMessage, called |-> TRUE,
          exhausted |-> FALSE]
    ELSE [text |-> "Changes of " \o commit_message, called |-> TRUE, exhausted |-> FALSE]

\* AIService.analyze_commit
analyze_commit(available, fails, commit_message) ==
    LLMCall(available, fails, "Error analyzing commit: ", "Changes of " \o commit_message)

LlmIdle == [pc |-> "idle", method |-> "", fails |-> 0, text |-> ""]

LlmDone(method, fails, text) ==
    [pc |-> "done", method |-> method, fails |-> fails, text |-> text]

LlmInit ==
    /\ tree \in Trees(GenMaxNodes, {"src"}, {"a.py", "README.md"})
    /\ failing \in FailChoices(tree)
    /\ walk = WalkIdle
    /\ model_available \in BOOLEAN
    /\ llm = LlmIdle

LlmAnalyzeCode ==
    /\ llm.pc = "idle"
    /\ \E fails \in LLMFailChoices :
          llm' = LlmDone("analyze_code", fails,
                         analyze_code(model_available, fails, "a.py").text)

LlmAnalyzeCommit ==
    /\ llm.pc = "idle"
    /\ \E fails \in LLMFailChoices :
          llm' = LlmDone("analyze_commit", fails,
                         analyze_commit(model_available, fails, "fix typo").text)

LlmRepositorySummary ==
    /\ llm.pc = "idle"
    /\ \E fails \in LLMFailChoices :
          llm' = LlmDone("generate_repository_summary", fails,
                         generate_repository_summary(model_available, fails).text)

LlmAnswerQuestion ==
    /\ llm.pc = "idle"
    /\ \E fails \in LLMFailChoices :
          llm' = LlmDone("answer_question", fails,
                         answer_question(model_available, fails, "auth", "").text)

LlmMermaidDiagram ==
    /\ llm.pc = "idle"
    /\ \E fails \in LLMFailChoices :
          llm' = LlmDone("generate_mermaid_diagram", fails,
                         generate_mermaid_diagram(model_available, fails,
                                                  "flowchart LR\nA --> B"))

(***************************************************************************)
(* DocumentationService._save_documentation called by several generation   *)
(* runs for the same repository, one thread per request and no lock (see   *)
(* app.run).  Each call makes the file operations of lines 259-270         *)
(* in order; the operations of different calls interleave freely.  A       *)
(* write puts the whole content of its call into the file.                 *)
(***************************************************************************)
MaxSavers == 2            \* runs for one repository that save at the same time

SaverStart(k) == [pc |-> "makedirs", documentation |-> RecordOf(RepoName, k)]

SaveInit ==
    /\ store \in [{StorageKey(RepoName)} -> {EmptyDir, SavedDir(PreviousDocumentation)}]
    /\ storePrev = store
    /\ \E n \in 1..MaxSavers : savers = [k \in 1..n |-> SaverStart(k)]

\* os.makedirs(repo_dir, exist_ok=True): the files stay as they are
SaveMakeDirs ==
    \E k \in DOMAIN savers :
        /\ savers[k].pc = "makedirs"
        /\ savers' = [savers EXCEPT ![k].pc = "open_json"]
        /\ UNCHANGED <<store, storePrev>>

\* with open(doc_path, 'w') as f
SaveOpenJson ==
    \E k \in DOMAIN savers :
        /\ savers[k].pc = "open_json"
        /\ store' = [store EXCEPT ![StorageKey(RepoName)].json = Stored("empty", None)]
        /\ savers' = [savers EXCEPT ![k].pc = "dump_json"]
        /\ UNCHANGED storePrev

\* json.dump(documentation, f, indent=2)
SaveDumpJson ==
    \E k \in DOMAIN savers :
        /\ savers[k].pc = "dump_json"
        /\ store' = [store EXCEPT ![StorageKey(RepoName)].json =
                        Stored("full", savers[k].documentation)]
        /\ savers' = [savers EXCEPT ![k].pc = "open_md"]
        /\ UNCHANGED storePrev

\* markdown_content = self._generate_markdown(documentation)
\* with open(md_path, 'w') as f
SaveOpenMd ==
    \E k \in DOMAIN savers :
        /\ savers[k].pc = "open_md"
        /\ store' = [store EXCEPT ![StorageKey(RepoName)].md = Stored("empty", None)]
        /\ savers' = [savers EXCEPT ![k].pc = "write_md"]
        /\ UNCHANGED storePrev

\* f.write(markdown_content); return doc_path, md_path
SaveWriteMd ==
    \E k \in DOMAIN savers :
        /\ savers[k].pc = "write_md"
        /\ store' = [store EXCEPT ![StorageKey(RepoName)].md =
                        Stored("full", _generate_markdown(savers[k].documentation))]
        /\ savers' = [savers EXCEPT ![k].pc = "done"]
        /\ UNCHANGED storePrev

(***************************************************************************)
(* The variables of a component that a specification does not run.         *)
(***************************************************************************)
RetryOff ==
    /\ max_retries = 0
    /\ initial_delay = 1
    /\ funcFails = 0
    /\ retry = [RetryStart EXCEPT !.pc = "off"]

WalkOff ==
    /\ tree = <<>>
    /\ failing = {}
    /\ walk = [WalkIdle EXCEPT !.op = "off"]

CtxOff ==
    /\ ctxDoc = NoDoc
    /\ ctxQuery = ""
    /\ ctx = [CtxIdle EXCEPT !.pc = "off"]

GenOff ==
    /\ model_available = TRUE
    /\ store = [k \in {StorageKey(RepoName)} |-> EmptyDir]
    /\ storePrev = store
    /\ gen = [GenStart EXCEPT !.pc = "off"]

KeysOff ==
    /\ generated = <<>>
    /\ lookup = [pc |-> "off"]

CredOff ==
    /\ github_service = [_access_token |-> "", github |-> ""]
    /\ reqs = <<>>

DiagOff == diag = [pc |-> "off"]

MermaidOff == mermaid = [pc |-> "off"]

ChatOff ==
    /\ chats = <<>>
    /\ chat = [pc |-> "off"]

HttpOff == http = [pc |-> "off"]

LlmOff == llm = [pc |-> "off"]

SaversOff == savers = <<>>

CallsOff == LlmOff /\ SaversOff

ServiceOff == KeysOff /\ CredOff /\ DiagOff /\ MermaidOff /\ ChatOff /\ HttpOff /\ CallsOff

InitRetry == RetryInit /\ WalkOff /\ CtxOff /\ GenOff /\ ServiceOff
NextRetry == RetryStep /\ UNCHANGED <<walkVars, ctxVars, genVars, serviceVars>>
SpecRetry == InitRetry /\ [][NextRetry]_vars

InitWalk == WalkInit /\ RetryOff /\ CtxOff /\ GenOff /\ ServiceOff
NextWalk ==
    \/ WalkImportantFiles /\ UNCHANGED <<retryVars, ctxVars, genVars, serviceVars>>
    \/ WalkBuildStructure /\ UNCHANGED <<retryVars, ctxVars, genVars, serviceVars>>
SpecWalk == InitWalk /\ [][NextWalk]_vars

InitCtx == CtxInit /\ RetryOff /\ WalkOff /\ GenOff /\ ServiceOff
NextCtx == CtxGetContext /\ UNCHANGED <<retryVars, walkVars, genVars, serviceVars>>
SpecCtx == InitCtx /\ [][NextCtx]_vars

InitGen ==
    /\ GenInit
    /\ failing = {}
    /\ walk = [WalkIdle EXCEPT !.op = "off"]
    /\ RetryOff
    /\ CtxOff
    /\ ServiceOff
GenUnchanged == UNCHANGED <<retryVars, failing, walk, ctxVars, serviceVars>>
NextGen ==
    \/ GenGetRepository /\ GenUnchanged
    \/ GenGetContents /\ GenUnchanged
    \/ GenBuildStructure /\ GenUnchanged
    \/ GenSummary /\ GenUnchanged
    \/ GenImportantFiles /\ GenUnchanged
    \/ GenFileDoc /\ GenUnchanged
    \/ GenCompile /\ GenUnchanged
    \/ GenOpenJson /\ GenUnchanged
    \/ GenDumpJson /\ GenUnchanged
    \/ GenOpenMd /\ GenUnchanged
    \/ GenWriteMd /\ GenUnchanged
SpecGen == InitGen /\ [][NextGen]_vars


InitKeys ==
    /\ KeysInit
    /\ model_available = TRUE
    /\ gen = [GenStart EXCEPT !.pc = "off"]
    /\ RetryOff /\ WalkOff /\ CtxOff
    /\ CredOff /\ DiagOff /\ MermaidOff /\ ChatOff /\ HttpOff /\ CallsOff
KeysUnchanged ==
    UNCHANGED <<retryVars, walkVars, ctxVars, model_available, gen,
                credVars, diag, mermaid, chatVars, http, callVars>>
NextKeys ==
    \/ KeysGenerate /\ KeysUnchanged
    \/ KeysGetDocumentation /\ KeysUnchanged
    \/ KeysGetDocumentationAgain /\ KeysUnchanged
SpecKeys == InitKeys /\ [][NextKeys]_vars

InitCred ==
    /\ CredInit
    /\ RetryOff /\ WalkOff /\ CtxOff /\ GenOff
    /\ KeysOff /\ DiagOff /\ MermaidOff /\ ChatOff /\ HttpOff /\ CallsOff
CredUnchanged ==
    UNCHANGED <<retryVars, walkVars, ctxVars, genVars,
                keysVars, diag, mermaid, chatVars, http, callVars>>
NextCred ==
    \/ CredSetToken /\ CredUnchanged
    \/ CredCheckClient /\ CredUnchanged
    \/ CredGetUser /\ CredUnchanged
    \/ CredGetRepository /\ CredUnchanged
    \/ CredGenGetRepository /\ CredUnchanged
    \/ CredGenGetContents /\ CredUnchanged
SpecCred == InitCred /\ [][NextCred]_vars

InitGenRead ==
    /\ GenInit
    /\ failing = {}
    /\ walk = [WalkIdle EXCEPT !.op = "off"]
    /\ RetryOff
    /\ CtxOff
    /\ generated = <<>>
    /\ lookup = LookupIdle
    /\ CredOff /\ DiagOff /\ MermaidOff /\ ChatOff /\ HttpOff /\ CallsOff
ReadUnchanged ==
    UNCHANGED <<retryVars, failing, walk, ctxVars, credVars, diag, mermaid, chatVars, http, callVars>>
NextGenRead ==
    \/ GenGetRepository /\ GenUnchanged
    \/ GenGetContents /\ GenUnchanged
    \/ GenBuildStructure /\ GenUnchanged
    \/ GenSummary /\ GenUnchanged
    \/ GenImportantFiles /\ GenUnchanged
    \/ GenFileDoc /\ GenUnchanged
    \/ GenCompile /\ GenUnchanged
    \/ GenOpenJson /\ GenUnchanged
    \/ GenDumpJson /\ GenUnchanged
    \/ GenOpenMd /\ GenUnchanged
    \/ GenWriteMd /\ GenUnchanged
    \/ ReadDocumentation /\ ReadUnchanged
SpecGenRead == InitGenRead /\ [][NextGenRead]_vars

InitMermaid ==
    /\ MermaidInit
    /\ store = [k \in {StorageKey(RepoName)} |-> EmptyDir]
    /\ storePrev = store
    /\ gen = [GenStart EXCEPT !.pc = "off"]
    /\ RetryOff /\ WalkOff /\ CtxOff
    /\ KeysOff /\ CredOff /\ DiagOff /\ ChatOff /\ HttpOff /\ CallsOff
MermaidUnchanged ==
    UNCHANGED <<retryVars, walkVars, ctxVars, store, storePrev, gen,
                keysVars, credVars, diag, chatVars, http, callVars>>
NextMermaid == MermaidGenerate /\ MermaidUnchanged
SpecMermaid == InitMermaid /\ [][NextMermaid]_vars

InitDiag ==
    /\ DiagInit
    /\ failing = {}
    /\ walk = [WalkIdle EXCEPT !.op = "off"]
    /\ RetryOff
    /\ CtxOff
    /\ KeysOff /\ CredOff /\ MermaidOff /\ ChatOff /\ HttpOff /\ CallsOff
DiagUnchanged ==
    UNCHANGED <<retryVars, failing, walk, ctxVars, keysVars, credVars, mermaid, chatVars, http, callVars>>
NextDiag ==
    \/ DiagAnalyze /\ DiagUnchanged
    \/ DiagMermaid /\ DiagUnchanged
    \/ GenGetRepository /\ GenUnchanged
    \/ GenGetContents /\ GenUnchanged
    \/ GenBuildStructure /\ GenUnchanged
    \/ GenSummary /\ GenUnchanged
    \/ GenImportantFiles /\ GenUnchanged
    \/ GenFileDoc /\ GenUnchanged
    \/ GenCompile /\ GenUnchanged
    \/ GenOpenJson /\ GenUnchanged
    \/ GenDumpJson /\ GenUnchanged
    \/ GenOpenMd /\ GenUnchanged
    \/ GenWriteMd /\ GenUnchanged
    \/ DiagAttach /\ DiagUnchanged
SpecDiag == InitDiag /\ [][NextDiag]_vars

InitChat ==
    /\ ChatInit
    /\ ctxQuery = ""
    /\ ctx = [CtxIdle EXCEPT !.pc = "off"]
    /\ store = [k \in {StorageKey(RepoName)} |-> EmptyDir]
    /\ storePrev = store
    /\ gen = [GenStart EXCEPT !.pc = "off"]
    /\ RetryOff /\ WalkOff
    /\ KeysOff /\ CredOff /\ DiagOff /\ MermaidOff /\ HttpOff /\ CallsOff
ChatUnchanged ==
    UNCHANGED <<retryVars, walkVars, ctxQuery, ctx, store, storePrev, gen,
                keysVars, credVars, diag, mermaid, http, callVars>>
NextChat == ChatQuery /\ ChatUnchanged
SpecChat == InitChat /\ [][NextChat]_vars

InitHttp ==
    /\ HttpInit
    /\ RetryOff /\ WalkOff /\ CtxOff /\ GenOff
    /\ KeysOff /\ CredOff /\ DiagOff /\ MermaidOff /\ ChatOff /\ CallsOff
HttpUnchanged ==
    UNCHANGED <<retryVars, walkVars, ctxVars, genVars,
                keysVars, credVars, diag, mermaid, chatVars, callVars>>
NextHttp ==
    \/ HttpGenerate /\ HttpUnchanged
    \/ HttpFile /\ HttpUnchanged
    \/ HttpExport /\ HttpUnchanged
    \/ HttpQuery /\ HttpUnchanged
    \/ HttpUpdate /\ HttpUnchanged
    \/ HttpContext /\ HttpUnchanged
SpecHttp == InitHttp /\ [][NextHttp]_vars

InitLlm ==
    /\ LlmInit
    /\ store = [k \in {StorageKey(RepoName)} |-> EmptyDir]
    /\ storePrev = store
    /\ gen = [GenStart EXCEPT !.pc = "off"]
    /\ RetryOff /\ CtxOff
    /\ KeysOff /\ CredOff /\ DiagOff /\ MermaidOff /\ ChatOff /\ HttpOff /\ SaversOff
LlmUnchanged ==
    UNCHANGED <<retryVars, walkVars, ctxVars, genVars,
                keysVars, credVars, diag, mermaid, chatVars, http, savers>>
LlmWalkUnchanged ==
    UNCHANGED <<retryVars, ctxVars, genVars, serviceVars>>
NextLlm ==
    \/ LlmAnalyzeCode /\ LlmUnchanged
    \/ LlmAnalyzeCommit /\ LlmUnchanged
    \/ LlmRepositorySummary /\ LlmUnchanged
    \/ LlmAnswerQuestion /\ LlmUnchanged
    \/ LlmMermaidDiagram /\ LlmUnchanged
    \/ WalkImportantFiles /\ LlmWalkUnchanged
    \/ WalkBuildStructure /\ LlmWalkUnchanged
SpecLlm == InitLlm /\ [][NextLlm]_vars

InitSave ==
    /\ SaveInit
    /\ model_available = TRUE
    /\ gen = [GenStart EXCEPT !.pc = "off"]
    /\ RetryOff /\ WalkOff /\ CtxOff
    /\ KeysOff /\ CredOff /\ DiagOff /\ MermaidOff /\ ChatOff /\ HttpOff /\ LlmOff
SaveUnchanged ==
    UNCHANGED <<retryVars, walkVars, ctxVars, model_available, gen,
                keysVars, credVars, diag, mermaid, chatVars, http, llm>>
NextSave ==
    \/ SaveMakeDirs /\ SaveUnchanged
    \/ SaveOpenJson /\ SaveUnchanged
    \/ SaveDumpJson /\ SaveUnchanged
    \/ SaveOpenMd /\ SaveUnchanged
    \/ SaveWriteMd /\ SaveUnchanged
SpecSave == InitSave /\ [][NextSave]_vars

(***************************************************************************)
(* Properties of _retry_api_call (SpecRetry).                              *)
(***************************************************************************)
Sleeps(log) == {i \in 1..Len(log) : log[i].ev = "sleep"}

\* C5: with max_retries >= 0, a func that fails exactly k <= max_retries times
\* and then succeeds makes the call return func's value after exactly k+1
\* attempts and exactly k sleeps, the i-th sleep lasting initial_delay * 2^(i-1)
\* and lying between the i-th failure and the (i+1)-th attempt.
C5_RetryReturnsAfterBackoff ==
    (retry.pc \in {"returned", "raised"} /\ max_retries >= 0 /\ funcFails <= max_retries) =>
        LET k == funcFails
        IN  /\ retry.pc = "returned"
            /\ retry.kind = "value"
            /\ retry.val = RetValue
            /\ Attempts(retry.log) = k + 1
            /\ Cardinality(Sleeps(retry.log)) = k
            /\ Len(retry.log) = 2 * k + 1
            /\ \A i \in 1..k :
                  /\ retry.log[2 * i - 1] = Ev("fail", i)
                  /\ retry.log[2 * i] = Ev("sleep", initial_delay * 2 ^ (i - 1))
            /\ retry.log[2 * k + 1].ev = "ok"

\* the default call (max_retries = 3, initial_delay = 1) after three failures
\* and a success: sleeps of 1, 2 and 4
C5_Witness ==
    /\ retry.pc = "returned"
    /\ max_retries = 3 /\ initial_delay = 1 /\ funcFails = 3
    /\ [i \in 1..3 |-> retry.log[2 * i].arg] = <<1, 2, 4>>

\* C6: with max_retries >= 0, a func that fails on each of max_retries+1
\* attempts makes the call raise the failure of the last attempt, after exactly
\* max_retries+1 attempts, with no sleep after the final failure.
C6_RetryRaisesLastFailure ==
    /\ (retry.pc # "off" /\ max_retries >= 0) => Attempts(retry.log) <= max_retries + 1
    /\ (retry.pc \in {"returned", "raised"} /\ max_retries >= 0 /\ funcFails >= max_retries + 1) =>
          /\ retry.pc = "raised"
          /\ retry.kind = "raise"
          /\ retry.err = max_retries + 1
          /\ Attempts(retry.log) = max_retries + 1
          /\ retry.log[Len(retry.log)] = Ev("fail", max_retries + 1)
          /\ Cardinality(Sleeps(retry.log)) = max_retries

C6_Witness ==
    /\ retry.pc = "raised"
    /\ max_retries = 3 /\ funcFails > 3
    /\ Attempts(retry.log) = 4

(***************************************************************************)
(* Properties of _get_important_files (SpecWalk).                          *)
(***************************************************************************)
PrunedNames == {".git", "node_modules", "venv", "dist", "build"}
AllowedNames == {"readme.md", "contributing.md", "license", "dockerfile", ".env.example"}
AllowedExtensions == {".py", ".js", ".jsx", ".ts", ".tsx", ".go", ".java", ".rb",
                      ".php", ".c", ".cpp", ".h", ".hpp"}

\* the names between the slashes of a path
RECURSIVE PathComponents(_)
PathComponents(p) ==
    IF \A i \in 1..Len(p) : Char(p, i) # "/" THEN <<p>>
    ELSE LET s == CHOOSE i \in 1..Len(p) :
                      Char(p, i) = "/" /\ \A j \in 1..(i - 1) : Char(p, j) # "/"
         IN  <<SubSeq(p, 1, s - 1)>> \o PathComponents(SubSeq(p, s + 1, Len(p)))

\* p lies under a directory with a pruned name
UnderPrunedDir(p) ==
    LET c == PathComponents(p)
    IN  \E i \in 1..(Len(c) - 1) : Lower(c[i]) \in PrunedNames

\* p is such a directory, or lies under one
InPrunedDir(p) ==
    LET c == PathComponents(p)
    IN  \E i \in 1..Len(c) : Lower(c[i]) \in PrunedNames

Occurrences(seq, x) == Cardinality({i \in 1..Len(seq) : seq[i] = x})

\* C7: the result of _get_important_files holds no path under a directory named
\* (case-insensitively) .git, node_modules, venv, dist or build, at any depth,
\* and no such directory is ever listed during the selection.
C7_PrunedDirsExcluded ==
    walk.op = "important" =>
        /\ \A i \in 1..Len(walk.files) : ~UnderPrunedDir(walk.files[i])
        /\ \A i \in 1..Len(walk.calls) : ~InPrunedDir(walk.calls[i])

\* a selectable file two levels down, below a pruned directory spelled with a
\* capital, in a walk that listed a directory and returned
C7_Witness ==
    /\ walk.op = "important" /\ ~walk.raised
    /\ Len(walk.calls) > 0
    /\ \E e \in AllEntries(tree) :
          /\ e.type = "file" /\ IsImportantFile(e.name)
          /\ Len(PathComponents(e.path)) = 3
          /\ PathComponents(e.path)[2] = "Build"

\* C8: a file is in the result of _get_important_files iff it is not under a
\* pruned directory and its lowercased name is in the name allow-list or the
\* extension of its lowercased name is in the extension allow-list, whatever
\* its depth; each such file appears exactly once, and nothing else appears.
C8_ImportantFilesExact ==
    (walk.op = "important" /\ ~walk.raised) =>
        /\ \A e \in AllEntries(tree) :
              e.type = "file" =>
                 Occurrences(walk.files, e.path) =
                    IF /\ ~UnderPrunedDir(e.path)
                       /\ \/ Lower(e.name) \in AllowedNames
                          \/ SplitExt(Lower(e.name)) \in AllowedExtensions
                    THEN 1 ELSE 0
        /\ \A i \in 1..Len(walk.files) :
              \E e \in AllEntries(tree) : e.type = "file" /\ e.path = walk.files[i]

\* a README two directories down, selected by a walk that returned
C8_Witness ==
    /\ walk.op = "important" /\ ~walk.raised
    /\ \E i \in 1..Len(walk.files) :
          /\ Len(PathComponents(walk.files[i])) = 3
          /\ PathComponents(walk.files[i])[3] = "README.md"

(***************************************************************************)
(* Properties of get_context_for_query (SpecCtx).                          *)
(***************************************************************************)
\* the lowercased, whitespace-separated tokens of a query
QueryTokens(query) == LET t == Split(Lower(query)) IN {t[i] : i \in 1..Len(t)}

\* some token is a substring of the lowercased path or documentation text
TokenMatches(file_doc, query) ==
    \E t \in QueryTokens(query) :
        \/ Contains(Lower(file_doc.file_path), t)
        \/ Contains(Lower(file_doc.documentation), t)

\* how often the entry (path line, documentation text) follows the header
EntryCount(rc, file_doc) ==
    Cardinality({j \in 1..((Len(rc) - 3) \div 2) :
                    /\ rc[2 * j + 2] = "File: " \o file_doc.file_path
                    /\ rc[2 * j + 3] = file_doc.documentation})

\* C9: with persisted documentation, a file's entry (path line plus
\* documentation text) is in the context iff some whitespace-separated,
\* lowercased query token is a substring of the lowercased path or of the
\* lowercased documentation text; a file matching on both is there once.
C9_ContextMatchesTokens ==
    (ctx.pc = "done" /\ ctxDoc.exists) =>
        LET rc == ctx.relevant_context
            files == ctxDoc.files
            matched == {i \in 1..Len(files) : TokenMatches(files[i], ctxQuery)}
        IN  /\ Len(rc) = 3 + 2 * Cardinality(matched)
            /\ \A i \in 1..Len(files) :
                  EntryCount(rc, files[i]) =
                     Cardinality({j \in matched : files[j] = files[i]})

\* the query "s" is in the path src/a.py and in the text "handles auth": that
\* file is there once, and a file without an "s" is left out
C9_Witness ==
    /\ ctx.pc = "done" /\ ctxDoc.exists /\ ctxQuery = "s"
    /\ Len(ctxDoc.files) = 2
    /\ ctxDoc.files[1] = [file_path |-> "src/a.py", documentation |-> "handles auth"]
    /\ ~TokenMatches(ctxDoc.files[2], ctxQuery)
    /\ Len(ctx.relevant_context) = 5

\* the matched files' entries, in the order of the files list
RECURSIVE MatchedEntries(_, _)
MatchedEntries(files, query) ==
    IF Len(files) = 0 THEN <<>>
    ELSE (IF TokenMatches(files[1], query)
          THEN << "File: " \o files[1].file_path, files[1].documentation >>
          ELSE <<>>) \o MatchedEntries(Tail(files), query)

\* C10: with persisted documentation, the context starts with exactly the three
\* header entries (repository name, description, summary, in that order) and
\* goes on with the matched files' entries in the order of the files list; a
\* query without a matching token (or without any token) gives the header only.
C10_ContextHeaderThenFilesInOrder ==
    (ctx.pc = "done" /\ ctxDoc.exists) =>
        LET rc == ctx.relevant_context
            h1 == "Repository: " \o ctxDoc.repository.name
            h2 == "Description: " \o ctxDoc.repository.description
            h3 == "Summary: " \o ctxDoc.repository.summary
        IN  /\ Len(rc) >= 3
            /\ rc[1] = h1 /\ rc[2] = h2 /\ rc[3] = h3
            /\ SubSeq(rc, 4, Len(rc)) = MatchedEntries(ctxDoc.files, ctxQuery)
            /\ (\A i \in 1..Len(ctxDoc.files) : ~TokenMatches(ctxDoc.files[i], ctxQuery))
                  => ctx.ret = h1 \o "\n\n" \o h2 \o "\n\n" \o h3
            /\ StartsWith(ctx.ret, h1 \o "\n\n" \o h2 \o "\n\n" \o h3)

\* two different files, both matched, the second of the list last
C10_Witness ==
    /\ ctx.pc = "done" /\ ctxDoc.exists
    /\ Len(ctxDoc.files) = 2
    /\ ctxDoc.files[1].file_path # ctxDoc.files[2].file_path
    /\ Len(ctx.relevant_context) = 7
    /\ ctx.relevant_context[6] = "File: " \o ctxDoc.files[2].file_path

(***************************************************************************)
(* Properties of generate_repository_documentation (SpecGen).              *)
(***************************************************************************)
\* C1: if the repository-summary LLM call fails on every attempt of the retry
\* budget, the run returns no record and persists nothing; a persisted record
\* never carries a summary that a failed summary call produced.
C1_SummaryFailureIsFatal ==
    /\ (gen.pc = "done" /\ "summary" \in gen.exhausted) =>
          (gen.result = None /\ store = storePrev)
    /\ \A k \in DOMAIN store :
          (store[k].json.state = "full" /\ store[k].json # storePrev[k].json) =>
              "summary" \notin gen.exhausted

\* C2: a file whose LLM call exhausts its retries has no entry in the files
\* list; over [f1, f2] with f1 documented and f2 exhausted, the run succeeds
\* with exactly the one entry f1.
C2_ExhaustedFileHasNoEntry ==
    /\ \A i \in 1..Len(gen.file_docs) : gen.file_docs[i].file_path \notin gen.exhausted
    /\ (gen.pc = "done" /\ gen.failed = "" /\ Len(gen.important_files) = 2
          /\ gen.important_files[2] \in gen.exhausted
          /\ gen.important_files[1] \notin gen.exhausted
          /\ \E i \in 1..Len(gen.file_docs) :
                gen.file_docs[i].file_path = gen.important_files[1]) =>
          /\ gen.result.exists
          /\ Len(gen.result.files) = 1
          /\ gen.result.files[1].file_path = gen.important_files[1]

\* the steps whose failure ends the run before anything is compiled
FatalSteps == {"get_repository", "get_contents", "build_structure", "important_files"}

\* C3: when the repository metadata fetch, the root listing or a subdirectory
\* listing (while the structure is built or the important files are selected)
\* fails, the run returns None, not a record, and the store is what it was
\* before the run; the store changes only once the record has been compiled.
C3_FatalFailureKeepsStore ==
    /\ (gen.pc = "done" /\ gen.failed \in FatalSteps) =>
          (gen.result = None /\ store = storePrev)
    /\ (store # storePrev) => gen.documentation.exists

\* a subdirectory listing fails during the selection, after the structure and
\* the summary were made, with an earlier record in the store
C3_Witness ==
    /\ gen.pc = "done" /\ gen.failed = "important_files"
    /\ gen.summary # ""
    /\ storePrev[StorageKey(RepoName)] = SavedDir(PreviousDocumentation)
    /\ store = storePrev

SaveSteps == {"open_json", "dump_json", "open_md", "write_md"}

\* C4: the persist step is atomic for its caller: once the run has returned,
\* if the step failed at any point the store holds the previous record,
\* otherwise the full new record; the stored JSON is never left truncated or
\* partly written.
C4_SaveIsAtomic ==
    gen.pc = "done" =>
        /\ gen.failed \in SaveSteps => store = storePrev
        /\ gen.failed = "" => store[StorageKey(RepoName)] = SavedDir(gen.documentation)
        /\ \A k \in DOMAIN store : store[k].json.state \in {"absent", "full"}


(***************************************************************************)
(* Properties of get_context_for_query without a record (SpecCtx).         *)
(***************************************************************************)
\* C11: when get_documentation finds no persisted record, the call returns
\* normally, its value is the sentinel sentence, and no header line was built.
C11_NoDocumentationSentinel ==
    (ctx.pc \notin {"start", "off"} /\ ~ctxDoc.exists) =>
        /\ ctx.pc = "done"
        /\ ctx.ret = "No documentation available for this repository."
        /\ ctx.relevant_context = <<>>

C11_Witness ==
    /\ ctx.pc = "done"
    /\ ~ctxDoc.exists
    /\ ctxQuery = "auth"
    /\ ctx.ret = "No documentation available for this repository."


(***************************************************************************)
(* Properties of the storage key (SpecKeys).                               *)
(***************************************************************************)
\* C12: get_documentation(X) returns the record last generated for X (nothing
\* when no run for X completed), never a record generated for another name.
C12_KeyIsCollisionFree ==
    lookup.pc = "done" =>
        /\ ~lookup.raised
        /\ lookup.value = generated[lookup.repo_name]


(***************************************************************************)
(* Properties of the credential under concurrent requests (SpecCred).      *)
(***************************************************************************)
\* C13: every GitHub call made while handling a request goes through a client
\* built with that request's own token: never another request's token, and
\* never a client another request's setter has cleared.
C13_CredentialIsRequestScoped ==
    \A r \in DOMAIN reqs :
        \A i \in 1..Len(reqs[r].used) :
            reqs[r].used[i] = reqs[r].token


(***************************************************************************)
(* Properties of a reader beside a generation run (SpecGenRead).           *)
(***************************************************************************)
\* C14: a get_documentation call made while a run persists its record returns
\* the complete previous record (or nothing, when there was none) or the
\* complete new record; it never meets a documentation.json that is empty or
\* cut short.
C14_ReaderSeesCompleteRecord ==
    lookup.pc = "done" =>
        /\ ~lookup.raised
        /\ lookup.value \in {storePrev[StorageKey(RepoName)].json.content,
                             gen.documentation}


(***************************************************************************)
(* Properties of generate_mermaid_diagram (SpecMermaid).                   *)
(***************************************************************************)
HasFlowKeyword(text) == Contains(text, "flowchart")
HasEdgeMarker(text) == Contains(text, "-->")
IsPlaceholder(diagram) == diagram \in {PlaceholderNotAvailable, PlaceholderFailed}

\* C16: when the LLM answers, a text without the keyword flowchart or without
\* an edge marker --> is replaced by the canned placeholder; a diagram other
\* than the placeholder is returned only for a text that holds both.
C16_MalformedGetsPlaceholder ==
    (mermaid.pc = "done" /\ model_available /\ mermaid.fails <= DefaultMaxRetries) =>
        /\ (~HasFlowKeyword(mermaid.text) \/ ~HasEdgeMarker(mermaid.text)) =>
               IsPlaceholder(mermaid.result)
        /\ ~IsPlaceholder(mermaid.result) =>
               (HasFlowKeyword(mermaid.text) /\ HasEdgeMarker(mermaid.text))


(***************************************************************************)
(* Properties of generate_documentation (SpecDiag).                        *)
(***************************************************************************)
\* C15: generate_documentation fails (returns None) only when the run of
\* generate_repository_documentation was made and failed; no failure while
\* the repository is analysed for the diagram or while the LLM is asked for
\* it makes the call fail.  When that run succeeds, the record returned holds
\* under diagrams.flow the generated diagram or a canned placeholder.
C15_DiagramFailureIsNotRunFailure ==
    diag.pc = "done" =>
        /\ diag.result = None => (gen.pc = "done" /\ gen.result = None)
        /\ (gen.pc = "done" /\ gen.result # None) =>
              /\ diag.result # None
              /\ diag.result.diagrams.present
              /\ diag.result.diagrams.flow = diag.flow_diagram
              /\ diag.flow_diagram # ""


(***************************************************************************)
(* Properties of the query route and the conversation log (SpecChat).      *)
(***************************************************************************)
IsErrorAnswer(answer) ==
    \/ StartsWith(answer, "Error answering question: ")
    \/ StartsWith(answer, "Error: AI service not available.")

\* every conversation record in data/chats
Conversations == UNION {{chats[k][f] : f \in DOMAIN chats[k]} : k \in DOMAIN chats}

\* C17: a query whose LLM call fails on every attempt, or whose LLM service
\* is not available, is answered with status "error" and an HTTP 4xx/5xx
\* code, and no conversation whose answer is an error message is in the log.
C17_LlmFailureIsErrorEnvelope ==
    /\ chat.pc = "serving" /\ chat.last.llm_failed =>
          /\ chat.last.response.status = "error"
          /\ chat.last.response.code \in 400..599
    /\ \A c \in Conversations : ~IsErrorAnswer(c.answer)


\* C20: the log of a repository holds one record per completed exchange:
\* after n completed answer_question calls for a repository its directory
\* holds n conversation files, and each conversation ever saved is still
\* there unchanged, also when two exchanges read the same timestamp.
C20_ConversationLogIsAppendOnly ==
    \A r \in ChatRepos :
        LET dir == IF StorageKey(r) \in DOMAIN chats THEN chats[StorageKey(r)] ELSE <<>>
            saved == chat.completed[r]
        IN  /\ Cardinality(DOMAIN dir) = Len(saved)
            /\ \A i \in 1..Len(saved) : \E f \in DOMAIN dir : dir[f] = saved[i]


(***************************************************************************)
(* Properties of the routes (SpecHttp).                                    *)
(***************************************************************************)
EffectsOf(reply) == {reply.effects[i] : i \in 1..Len(reply.effects)}

\* no Bearer header that carries a token and no token in the session
NoCredential(req) ==
    /\ ~(StartsWith(req.authorization, "Bearer ") /\ Len(req.authorization) > 7)
    /\ req.session = ""

\* C18: a request to generate, file or query that carries no credential gets
\* an error response, and no call to GitHub or to the LLM is made for it.
C18_NoCredentialNoExternalCall ==
    (http.pc = "done" /\ http.request.endpoint \in {"generate", "file", "query"}
                      /\ NoCredential(http.request)) =>
        /\ http.reply.status = "error"
        /\ EffectsOf(http.reply) \cap {"github", "llm"} = {}

\* the fields the endpoints require
FieldsRequired ==
    [generate |-> {"repo_name"}, file |-> {"repo_name", "file_path"},
     export |-> {"repo_name"}, query |-> {"repo_name", "question"},
     update |-> {"repo_name", "file_path", "suggestion"},
     context |-> {"repo_name", "query"}]

LacksRequiredField(req) ==
    \/ ~req.has_body
    \/ \E name \in FieldsRequired[req.endpoint] : ~req.data[name]

\* C19: a request to generate, file, export, query, update or context whose
\* body lacks a required field gets an error response with a 4xx/5xx code,
\* and handling it makes no GitHub call, no LLM call and no write to the
\* documentation or chat store.
C19_MissingFieldRejectedFirst ==
    (http.pc = "done" /\ LacksRequiredField(http.request)) =>
        /\ http.reply.status = "error"
        /\ http.reply.code \in 400..599
        /\ EffectsOf(http.reply) \cap {"github", "llm", "write_docs", "write_chats"} = {}

\* a file request with a credential and a repo_name but no file_path
C19_Witness ==
    /\ http.pc = "done"
    /\ http.request.endpoint = "file"
    /\ http.request.has_body
    /\ http.request.data["repo_name"] /\ ~http.request.data["file_path"]
    /\ http.request.authorization = "Bearer tokA"
    /\ http.reply = [status |-> "error", code |-> 400, effects |-> <<>>]


\* C21: get_documentation is read-only and idempotent: the call leaves the
\* store as it found it, and a second call for the same name with no run in
\* between returns what the first returned (the same record, or none twice).
C21_GetDocumentationIsIdempotent ==
    /\ lookup.pc \in {"done", "again"} => store = lookup.before
    /\ lookup.pc = "again" =>
          lookup.again = [raised |-> lookup.raised, value |-> lookup.value]

\* a record was generated and then read twice under its name
C21_Witness ==
    /\ lookup.pc = "again"
    /\ lookup.value # None
    /\ lookup.value = generated[lookup.repo_name]
    /\ lookup.again.value = lookup.value


(***************************************************************************)
(* Properties of the per-file step (SpecGen).                              *)
(***************************************************************************)
PathsOf(file_docs) == [i \in DOMAIN file_docs |-> file_docs[i].file_path]
NotSkipped(p) == p \notin gen.skipped

\* C22: a selected path that is fetched as a listing, whose fetch fails or
\* whose bytes are not UTF-8 is left out and nothing else happens: the LLM is
\* not asked about it, the run does not end there, the other files are
\* documented, and the run that goes on to the end persists its record.
C22_UnreadableFileIsOmitted ==
    /\ \A p \in gen.skipped :
          /\ p \notin gen.llm_calls
          /\ \A i \in DOMAIN gen.file_docs : gen.file_docs[i].file_path # p
    /\ gen.failed # "file_doc"
    /\ gen.documentation.exists =>
          PathsOf(gen.documentation.files) = SelectSeq(gen.important_files, NotSkipped)
    /\ (gen.pc = "done" /\ gen.failed = "") =>
          /\ gen.result = gen.documentation
          /\ gen.result.exists
          /\ store[StorageKey(RepoName)] = SavedDir(gen.result)

\* of two selected files the first was not readable, the second was documented
\* with the LLM, and the record is persisted
C22_Witness ==
    /\ gen.pc = "done" /\ gen.failed = ""
    /\ Len(gen.important_files) = 2
    /\ gen.skipped = {gen.important_files[1]}
    /\ gen.important_files[2] \in gen.llm_calls
    /\ PathsOf(gen.result.files) = <<gen.important_files[2]>>
    /\ store[StorageKey(RepoName)].json = Stored("full", gen.result)


(***************************************************************************)
(* Properties of the LLM methods and of the walkers (SpecLlm).             *)
(***************************************************************************)
IsFailureText(text) == StartsWith(text, "Error ") \/ text = PlaceholderFailed

DirOf(p) == LET c == PathComponents(p) IN SubSeq(c, 1, Len(c) - 1)

IsProperPrefix(a, b) == Len(a) < Len(b) /\ SubSeq(b, 1, Len(a)) = a

\* C24: in the result of _get_important_files the files directly inside a
\* directory come before every file from its subdirectories, whatever the
\* order of the listings, and subdirectories are listed in listing order.
C24_ParentFilesBeforeSubdirectories ==
    (walk.op = "important" /\ ~walk.raised) =>
        \A i, j \in 1..Len(walk.files) :
            i < j => ~IsProperPrefix(DirOf(walk.files[j]), DirOf(walk.files[i]))


(***************************************************************************)
(* Properties of the files list of a record (SpecGen).                     *)
(***************************************************************************)
\* a is b with some elements left out
RECURSIVE IsSubsequence(_, _)
IsSubsequence(a, b) ==
    IF Len(a) = 0 THEN TRUE
    ELSE IF Len(b) = 0 THEN FALSE
    ELSE IF a[1] = b[1] THEN IsSubsequence(Tail(a), Tail(b))
    ELSE IsSubsequence(a, Tail(b))

StepRank(pc) ==
    CASE pc = "get_repository" -> 1
      [] pc = "get_contents" -> 2
      [] pc = "build_structure" -> 3
      [] pc = "summary" -> 4
      [] pc = "important_files" -> 5
      [] pc = "files" -> 6
      [] pc = "open_json" -> 7
      [] pc = "dump_json" -> 8
      [] pc = "open_md" -> 9
      [] pc = "write_md" -> 10
      [] OTHER -> 11

\* two states of a file are the same file
SameFile(a, b) ==
    a.state = b.state /\ (a.state \in {"full", "partial"} => a.content = b.content)

SameStore(s, t) ==
    \A k \in DOMAIN s : SameFile(s[k].json, t[k].json) /\ SameFile(s[k].md, t[k].md)

\* C26: a run goes through its steps in one order and never back: repository
\* fetch, structure, summary, selection, the files one after the other in the
\* selected order, assembly, then one save; the store is written only by that
\* save, after the last file's step, and each of its writes happens once.
C26_StepsStrictlyOrdered ==
    [][ /\ gen' # gen =>
              \/ StepRank(gen'.pc) > StepRank(gen.pc)
              \/ /\ gen.pc = "files" /\ gen'.pc = "files"
                 /\ gen'.idx = gen.idx + 1
                 /\ IsSubsequence(PathsOf(gen'.file_docs),
                                  SubSeq(gen.important_files, 1, gen.idx))
                 /\ SubSeq(gen'.file_docs, 1, Len(gen.file_docs)) = gen.file_docs
        /\ ~SameStore(store, store') =>
              /\ gen.pc \in SaveSteps
              /\ gen.idx > Len(gen.important_files)
              /\ gen.documentation.exists
              /\ gen.documentation.files = gen.file_docs
      ]_vars

\* a run that asked for the summary, documented two files and saved the record
C26_Witness ==
    /\ gen.pc = "done" /\ gen.failed = ""
    /\ "summary" \in gen.llm_calls
    /\ Len(gen.file_docs) = 2
    /\ ~SameStore(store, storePrev)
    /\ store[StorageKey(RepoName)] = SavedDir(gen.documentation)


(***************************************************************************)
(* Properties of the record of the diagram variant (SpecDiag).             *)
(***************************************************************************)
\* C27: once generate_documentation has returned a record, get_documentation
\* for the same repository returns an equal record, diagrams.flow included.
C27_DiagramIsPersisted ==
    (diag.pc = "done" /\ diag.result.exists) =>
        LET r == get_documentation(store, RepoName)
        IN  /\ ~r.raised
            /\ r.value.exists
            /\ r.value.diagrams = diag.result.diagrams
            /\ r.value = diag.result


(***************************************************************************)
(* Properties of the update endpoint (SpecHttp).                           *)
(***************************************************************************)
\* the persisted record holds documentation of the request's file
FileDocumentationExists == http.env.doc_exists /\ http.env.file_documented

\* C28: the update endpoint answers an error envelope with a 4xx or 5xx code
\* when the repository has no persisted documentation or the persisted files
\* list has no entry for file_path; its envelope says "success" only when the
\* documentation of the file exists.
C28_UpdateOfMissingDocIsError ==
    (http.pc = "done" /\ http.request.endpoint = "update") =>
        /\ ~FileDocumentationExists =>
              (http.reply.status = "error" /\ http.reply.code >= 400)
        /\ http.reply.status = "success" => FileDocumentationExists


(***************************************************************************)
(* Properties of the handlers of the three generators (SpecDiag).          *)
(***************************************************************************)
\* what a generator hands to its caller: a record or None
IsRecordOrNone(result) == result = None \/ result.exists

\* C29: whatever GitHub, LLM or file call fails, generate_file_documentation,
\* generate_repository_documentation and generate_documentation end by
\* returning a record or None: no failure leaves them as an exception.
C29_NoFailureEscapes ==
    /\ gen.failed # "file_doc"
    /\ gen.failed # "" => (gen.pc = "done" /\ gen.result = None)
    /\ gen.pc = "done" => IsRecordOrNone(gen.result)
    /\ diag.failed # "" => (diag.pc = "done" /\ diag.result = None)
    /\ diag.pc = "done" => IsRecordOrNone(diag.result)

\* the fetch of a selected file failed, the run went on and failed while
\* writing documentation.json, and generate_documentation returned None
C29_Witness ==
    /\ diag.pc = "done" /\ diag.failed = "generate_repository_documentation"
    /\ diag.result = None
    /\ gen.failed = "dump_json"
    /\ gen.skipped # {}


(***************************************************************************)
(* Properties of concurrent saves (SpecSave).                              *)
(***************************************************************************)
\* C30: when every run for a repository has finished saving, however their
\* saves interleaved, documentation.md is the Markdown rendering of the
\* record in documentation.json: both files come from the same run.
C30_MarkdownRendersJson ==
    (\A k \in DOMAIN savers : savers[k].pc = "done") =>
        LET dir == store[StorageKey(RepoName)]
        IN  /\ dir.json.state = "full" /\ dir.md.state = "full"
            /\ dir.md.content = _generate_markdown(dir.json.content)

=============================================================================
